---- MODULE Spec2Model ----
(***************************************************************************)
(* Model of the mqnic driver core (fpga/common/tb/mqnic.py): resource      *)
(* pools, register-block enumeration, event/completion queues, descriptor  *)
(* rings and the scheduler enable count.  Each component has its own       *)
(* group of variables and its own specification; a specification leaves    *)
(* the groups of the other components unchanged.                           *)
(***************************************************************************)
EXTENDS Integers, Sequences, FiniteSets, TLC

\* ------------------------------------------------------------------------
\* Generic helpers
\* ------------------------------------------------------------------------

Range(s) == {s[i] : i \in 1..Len(s)}

SetMin(S) == CHOOSE x \in S : \A y \in S : x <= y

IsSorted(s) == \A i \in 1..(Len(s) - 1) : s[i] <= s[i + 1]

NoDup(s) == \A i, j \in 1..Len(s) : i # j => s[i] # s[j]

\* Python's None
None == -1

\* ========================================================================
\* Resource (mqnic.py 369-391): the index allocator
\* ========================================================================

\* free_list: Resource.free_list; pool_held: the indices the callers hold;
\* pool_last: the last call, the free list before it, the index it returned
\* or was given, and for an alloc() that follows a free(x) directly, x
VARIABLES free_list, pool_held, pool_last

poolVars == <<free_list, pool_held, pool_last>>

\* number of slots of the stand-alone pool
PoolCount == 5

\* Resource.__init__: free_list = list(range(count))
Resource_init(count) == [k \in 1..count |-> k - 1]

\* Resource.alloc: free_list.pop(0); the value returned
Resource_alloc_ret(fl) == Head(fl)

\* an alloc() that reads the first free index without removing it
Resource_alloc_nopop(fl) == fl

\* Resource.alloc: free_list.pop(0); the list left
Resource_alloc(fl) == Tail(fl)

\* a free() that appends without sorting
Resource_free_nosort(fl, index) == Append(fl, index)

\* Resource.free: free_list.append(index); free_list.sort()
Resource_free(fl, index) == SortSeq(Append(fl, index), LAMBDA a, b : a < b)

PoolInit ==
    /\ free_list = Resource_init(PoolCount)
    /\ pool_held = {}
    /\ pool_last = [op |-> "init", before |-> <<>>, arg |-> None, freed |-> None]

PoolIdle ==
    /\ free_list = <<>>
    /\ pool_held = {}
    /\ pool_last = [op |-> "none", before |-> <<>>, arg |-> None, freed |-> None]

\* alloc() on a pool with a free index
PoolAlloc ==
    /\ free_list # <<>>
    /\ free_list' = Resource_alloc(free_list)
    /\ pool_held' = pool_held \cup {Resource_alloc_ret(free_list)}
    /\ pool_last' = [op |-> "alloc", before |-> free_list,
                     arg |-> Resource_alloc_ret(free_list),
                     freed |-> IF pool_last.op = "free" THEN pool_last.arg
                               ELSE None]

\* alloc() on an exhausted pool: list.pop(0) raises, nothing changes
PoolAllocFail ==
    /\ free_list = <<>>
    /\ pool_last' = [op |-> "alloc_error", before |-> free_list, arg |-> None,
                     freed |-> None]
    /\ UNCHANGED <<free_list, pool_held>>

\* free(x) of an index the caller holds
PoolFree ==
    \E x \in pool_held :
        /\ free_list' = Resource_free(free_list, x)
        /\ pool_held' = pool_held \ {x}
        /\ pool_last' = [op |-> "free", before |-> free_list, arg |-> x,
                         freed |-> None]



\* ========================================================================
\* Driver packet-buffer allocator (mqnic.py 2034-2036, 2158-2169)
\* ========================================================================

\* driver = [allocated_packets: Seq(pkt), free_packets: Seq(pkt)];
\* a packet buffer is named by its position in allocated_packets
VARIABLES driver

DriverInit == driver = [allocated_packets |-> <<>>, free_packets |-> <<>>]

\* Driver.alloc_pkt: the packet returned
alloc_pkt_ret(drv) ==
    IF drv.free_packets # <<>> THEN Head(drv.free_packets)
    ELSE Len(drv.allocated_packets) + 1

\* Driver.alloc_pkt: the allocator afterwards
alloc_pkt(drv) ==
    IF drv.free_packets # <<>>
    THEN [drv EXCEPT !.free_packets = Tail(@)]
    ELSE [drv EXCEPT !.allocated_packets = Append(@, Len(@) + 1)]

\* Driver.free_pkt: the two assertions
free_pkt_ok(drv, pkt) == pkt # None /\ pkt \in Range(drv.allocated_packets)

\* Driver.free_pkt: free_packets.append(pkt)
free_pkt(drv, pkt) == [drv EXCEPT !.free_packets = Append(@, pkt)]

\* ========================================================================
\* Queue objects of one interface: Eq, Cq, Txq, Rxq (mqnic.py 463-1091)
\* ========================================================================

\* The queue objects that exist (Interface.create_eq/cq/txq/rxq)
EqObjs == {"e0", "e1"}
CqObjs == {"c0", "c1"}
TxqObjs == {"t0", "t1"}
RxqObjs == {"r0", "r1"}

NoObj == "None"

MQNIC_MAX_EQ == 1

\* slots of the CQ, TXQ and RXQ pools (the hardware's count registers)
QueueCount == 2

\* interface.eq_res, cq_res, txq_res, rxq_res: the four free lists
VARIABLES eq_res, cq_res, txq_res, rxq_res

\* the queue objects, by name
VARIABLES eq, cq, txq, rxq

\* the hardware's registers of each slot, by slot index
VARIABLES hw_eq, hw_cq, hw_txq, hw_rxq

\* outcome of the last call: "ok" or the exception it raised
VARIABLES last_call

\* the register accesses (write_dword / read_dword) the last call issued
VARIABLES reg_access

callVars == <<last_call, reg_access>>

\* which ring type the open()/close() sequences of a behaviour exercise
VARIABLES q_kind

resVars == <<eq_res, cq_res, txq_res, rxq_res>>
objVars == <<eq, cq, txq, rxq>>
hwVars == <<hw_eq, hw_cq, hw_txq, hw_rxq>>

\* int.bit_length()
RECURSIVE bit_length(_)
bit_length(n) == IF n <= 0 THEN 0 ELSE 1 + bit_length(n \div 2)

RECURSIVE Pow2(_)
Pow2(k) == IF k <= 0 THEN 1 ELSE 2 * Pow2(k - 1)

\* n & size_mask, where size_mask is 2^k - 1 (0 before the first open)
And_mask(n, size_mask) == IF size_mask = 0 THEN 0 ELSE n % (size_mask + 1)

\* bool(n & size) for a power of two size: bit log2(size) of n
BitTest(n, size) == (n \div size) % 2 = 1

\* a Python dict as a set of <<key, value>> pairs with unique keys
DictHas(d, k) == \E p \in d : p[1] = k
DictGet(d, k) == (CHOOSE p \in d : p[1] = k)[2]
DictSet(d, k, v) == {p \in d : p[1] # k} \cup {<<k, v>>}
DictDel(d, k) == {p \in d : p[1] # k}

\* a zeroed event record and a zeroed completion record
ZeroEvent == [type |-> 0, src |-> 0, phase |-> FALSE]
ZeroCpl == [index |-> 0, len |-> 0, phase |-> FALSE]

\* Eq.__init__
Eq_new == [hw_regs |-> FALSE, eqn |-> None, log_size |-> 0, size |-> 0,
           size_mask |-> 0, enabled |-> FALSE, buf |-> <<>>, irq |-> None,
           cq_table |-> {}, cons_ptr |-> 0]

\* Cq.__init__
Cq_new == [hw_regs |-> FALSE, cqn |-> None, log_size |-> 0, size |-> 0,
           size_mask |-> 0, enabled |-> FALSE, buf |-> <<>>, eq |-> NoObj,
           src_ring |-> NoObj, handler |-> NoObj, cons_ptr |-> 0]

\* Txq.__init__ / Rxq.__init__ (info is tx_info or rx_info; Rxq has no
\* clean_event, the field stays FALSE there)
Ring_new == [hw_regs |-> FALSE, index |-> None, log_queue_size |-> 0,
             log_desc_block_size |-> 0, desc_block_size |-> 0, size |-> 0,
             size_mask |-> 0, full_size |-> 0, enabled |-> FALSE,
             info |-> <<>>, ndev |-> NoObj, cq |-> NoObj, prod_ptr |-> 0,
             cons_ptr |-> 0, clean_event |-> FALSE]

\* hardware registers of one EQ / CQ slot and of one TXQ / RXQ slot
HwEvq_reset == [enable |-> FALSE, arm |-> FALSE, prod_ptr |-> 0, cons_ptr |-> 0]
HwRing_reset == [enable |-> FALSE, prod_ptr |-> 0, cons_ptr |-> 0]

ObjInit ==
    /\ eq_res = Resource_init(MQNIC_MAX_EQ)
    /\ cq_res = Resource_init(QueueCount)
    /\ txq_res = Resource_init(QueueCount)
    /\ rxq_res = Resource_init(QueueCount)
    /\ eq = [e \in EqObjs |-> Eq_new]
    /\ cq = [c \in CqObjs |-> Cq_new]
    /\ txq = [t \in TxqObjs |-> Ring_new]
    /\ rxq = [r \in RxqObjs |-> Ring_new]
    /\ hw_eq = [n \in 0..(MQNIC_MAX_EQ - 1) |-> HwEvq_reset]
    /\ hw_cq = [n \in 0..(QueueCount - 1) |-> HwEvq_reset]
    /\ hw_txq = [n \in 0..(QueueCount - 1) |-> HwRing_reset]
    /\ hw_rxq = [n \in 0..(QueueCount - 1) |-> HwRing_reset]
    /\ last_call = "ok"
    /\ reg_access = 0


\* op and obj name the call in the actions' text; the state keeps its outcome
\* and the number of register accesses it issued
Called(op, obj, result, accesses) ==
    /\ last_call' = result
    /\ reg_access' = accesses

\* the literal 8 of Rxq.refill_buffers
REFILL_MIN_MISSING == 8

\* Rxq.refill_buffers, the loop: k times prepare_desc(prod_ptr & size_mask)
\* (rx_info[index] = driver.alloc_pkt()) and prod_ptr += 1
RECURSIVE refill_loop(_, _, _)
refill_loop(k, ring, drv) ==
    IF k = 0 THEN [ring |-> ring, drv |-> drv]
    ELSE LET index == And_mask(ring.prod_ptr, ring.size_mask)
         IN refill_loop(k - 1,
                        [ring EXCEPT !.info[index + 1] = alloc_pkt_ret(drv),
                                     !.prod_ptr = @ + 1],
                        alloc_pkt(drv))

\* a count of the missing slots that is one too high
refill_missing_plus(ring) == ring.size - (ring.prod_ptr - ring.cons_ptr) + 1

\* Rxq.refill_buffers: missing = size - (prod_ptr - cons_ptr)
refill_missing(ring) == ring.size - (ring.prod_ptr - ring.cons_ptr)

\* the loop followed by the one write_prod_ptr()
refill_publish(ring, drv) ==
    LET filled == refill_loop(refill_missing(ring), ring, drv)
    IN [ring |-> filled.ring, drv |-> filled.drv, writes |-> 1]

\* a refill that tops up whenever a slot is missing
refill_buffers_always(ring, drv) ==
    IF refill_missing(ring) < 1
    THEN [ring |-> ring, drv |-> drv, writes |-> 0]
    ELSE refill_publish(ring, drv)

\* Rxq.refill_buffers: returns at once when missing < 8; writes counts the
\* write_prod_ptr() calls
refill_buffers(ring, drv) ==
    IF refill_missing(ring) < REFILL_MIN_MISSING
    THEN [ring |-> ring, drv |-> drv, writes |-> 0]
    ELSE refill_publish(ring, drv)

\* ---- Eq.open / Eq.close (mqnic.py 488-542) ----

\* an open() that skips the test of hw_regs
Eq_open_again(e, irq, size) ==
    IF eq_res = <<>>
    THEN /\ Called("Eq.open", e, "IndexError", 0)
         /\ UNCHANGED <<resVars, objVars, hwVars, driver>>
    ELSE LET n == Resource_alloc_ret(eq_res)
             ls == bit_length(size) - 1
             sz == Pow2(ls)
         IN /\ eq_res' = Resource_alloc(eq_res)
            /\ eq' = [eq EXCEPT ![e] =
                   [hw_regs |-> TRUE, eqn |-> n, log_size |-> ls, size |-> sz,
                    size_mask |-> sz - 1, enabled |-> TRUE,
                    buf |-> [i \in 1..sz |-> ZeroEvent], irq |-> irq,
                    cq_table |-> {}, cons_ptr |-> 0]]
            /\ hw_eq' = [hw_eq EXCEPT ![n] =
                   [@ EXCEPT !.enable = TRUE, !.prod_ptr = 0, !.cons_ptr = 0]]
            /\ Called("Eq.open", e, "ok", 8)
            /\ UNCHANGED <<cq_res, txq_res, rxq_res, cq, txq, rxq,
                           hw_cq, hw_txq, hw_rxq, driver>>

Eq_open(e, irq, size) ==
    IF eq[e].hw_regs
    THEN /\ Called("Eq.open", e, "AlreadyOpen", 0)
         /\ UNCHANGED <<resVars, objVars, hwVars, driver>>
    ELSE IF eq_res = <<>>
    THEN /\ Called("Eq.open", e, "IndexError", 0)
         /\ UNCHANGED <<resVars, objVars, hwVars, driver>>
    ELSE LET n == Resource_alloc_ret(eq_res)
             ls == bit_length(size) - 1
             sz == Pow2(ls)
         IN /\ eq_res' = Resource_alloc(eq_res)
            /\ eq' = [eq EXCEPT ![e] =
                   [hw_regs |-> TRUE, eqn |-> n, log_size |-> ls, size |-> sz,
                    size_mask |-> sz - 1, enabled |-> TRUE,
                    buf |-> [i \in 1..sz |-> ZeroEvent], irq |-> irq,
                    cq_table |-> {}, cons_ptr |-> 0]]
            /\ hw_eq' = [hw_eq EXCEPT ![n] =
                   [@ EXCEPT !.enable = TRUE, !.prod_ptr = 0, !.cons_ptr = 0]]
            /\ Called("Eq.open", e, "ok", 8)
            /\ UNCHANGED <<cq_res, txq_res, rxq_res, cq, txq, rxq,
                           hw_cq, hw_txq, hw_rxq, driver>>

\* a close() that skips the test of hw_regs
Eq_close_unguarded(e) ==
    /\ hw_eq' = IF eq[e].hw_regs
                THEN [hw_eq EXCEPT ![eq[e].eqn].enable = FALSE]
                ELSE hw_eq
    /\ eq' = [eq EXCEPT ![e].irq = None, ![e].enabled = FALSE,
                        ![e].hw_regs = FALSE, ![e].eqn = None]
    /\ eq_res' = Resource_free(eq_res, eq[e].eqn)
    /\ Called("Eq.close", e, "ok", 1)
    /\ UNCHANGED <<cq_res, txq_res, rxq_res, cq, txq, rxq,
                   hw_cq, hw_txq, hw_rxq, driver>>

Eq_close(e) ==
    IF ~eq[e].hw_regs
    THEN /\ Called("Eq.close", e, "ok", 0)
         /\ UNCHANGED <<resVars, objVars, hwVars, driver>>
    ELSE /\ hw_eq' = [hw_eq EXCEPT ![eq[e].eqn].enable = FALSE]
         /\ eq' = [eq EXCEPT ![e].irq = None, ![e].enabled = FALSE,
                             ![e].hw_regs = FALSE, ![e].eqn = None]
         /\ eq_res' = Resource_free(eq_res, eq[e].eqn)
         /\ Called("Eq.close", e, "ok", 1)
         /\ UNCHANGED <<cq_res, txq_res, rxq_res, cq, txq, rxq,
                        hw_cq, hw_txq, hw_rxq, driver>>

\* ---- Cq.open / Cq.close (mqnic.py 613-667) ----

\* Cq.open once the slot is there: from the alloc() to the last write
Cq_open_alloc(c, e, size) ==
    LET n == Resource_alloc_ret(cq_res)
        ls == bit_length(size) - 1
        sz == Pow2(ls)
        \* eq.eqn is None for a closed EQ: MQNIC_CQ_CMD_SET_EQN | None
        \* raises TypeError after the first four register writes
        bound == eq[e].eqn # None
    IN /\ cq_res' = Resource_alloc(cq_res)
       /\ cq' = [cq EXCEPT ![c] =
              [@ EXCEPT !.hw_regs = TRUE, !.cqn = n, !.log_size = ls,
                        !.size = sz, !.size_mask = sz - 1,
                        !.buf = [i \in 1..sz |-> ZeroCpl],
                        !.cons_ptr = 0, !.eq = e,
                        !.enabled = IF bound THEN TRUE ELSE @]]
       /\ eq' = [eq EXCEPT ![e].cq_table = DictSet(@, n, c)]
       /\ hw_cq' = [hw_cq EXCEPT ![n] =
              IF bound
              THEN [@ EXCEPT !.enable = TRUE, !.prod_ptr = 0,
                             !.cons_ptr = 0]
              ELSE [@ EXCEPT !.enable = FALSE]]
       /\ Called("Cq.open", c, IF bound THEN "ok" ELSE "TypeError",
                 IF bound THEN 8 ELSE 4)
       /\ UNCHANGED <<eq_res, txq_res, rxq_res, txq, rxq,
                      hw_eq, hw_txq, hw_rxq, driver>>

\* an open() that swallows the failure of alloc()
Cq_open_swallow(c, e, size) ==
    IF cq[c].hw_regs
    THEN /\ Called("Cq.open", c, "AlreadyOpen", 0)
         /\ UNCHANGED <<resVars, objVars, hwVars, driver>>
    ELSE IF cq_res = <<>>
    THEN /\ Called("Cq.open", c, "ok", 0)
         /\ UNCHANGED <<resVars, objVars, hwVars, driver>>
    ELSE Cq_open_alloc(c, e, size)

Cq_open(c, e, size) ==
    IF cq[c].hw_regs
    THEN /\ Called("Cq.open", c, "AlreadyOpen", 0)
         /\ UNCHANGED <<resVars, objVars, hwVars, driver>>
    ELSE IF cq_res = <<>>
    THEN /\ Called("Cq.open", c, "IndexError", 0)
         /\ UNCHANGED <<resVars, objVars, hwVars, driver>>
    ELSE Cq_open_alloc(c, e, size)

Cq_close(c) ==
    IF ~cq[c].hw_regs
    THEN /\ Called("Cq.close", c, "ok", 0)
         /\ UNCHANGED <<resVars, objVars, hwVars, driver>>
    ELSE IF ~DictHas(eq[cq[c].eq].cq_table, cq[c].cqn)
    THEN \* eq.detach_cq: del cq_table[cqn] raises KeyError, after the
         \* disable write and before anything else
         /\ hw_cq' = [hw_cq EXCEPT ![cq[c].cqn].enable = FALSE]
         /\ Called("Cq.close", c, "KeyError", 1)
         /\ UNCHANGED <<resVars, objVars, hw_eq, hw_txq, hw_rxq, driver>>
    ELSE /\ hw_cq' = [hw_cq EXCEPT ![cq[c].cqn].enable = FALSE]
         /\ eq' = [eq EXCEPT ![cq[c].eq].cq_table = DictDel(@, cq[c].cqn)]
         /\ cq' = [cq EXCEPT ![c].eq = NoObj, ![c].enabled = FALSE,
                             ![c].hw_regs = FALSE, ![c].cqn = None]
         /\ cq_res' = Resource_free(cq_res, cq[c].cqn)
         /\ Called("Cq.close", c, "ok", 1)
         /\ UNCHANGED <<eq_res, txq_res, rxq_res, txq, rxq,
                        hw_eq, hw_txq, hw_rxq, driver>>

\* ---- Txq.open / Rxq.open (mqnic.py 712-751, 897-938): the part they share
\* up to the register writes; the ring object afterwards ----

Ring_opened(ring, n, ndev, c, size, desc_block_size) ==
    LET lq == bit_length(size) - 1
        ld == bit_length(desc_block_size) - 1
        sz == Pow2(lq)
    IN [ring EXCEPT !.hw_regs = TRUE, !.index = n, !.log_queue_size = lq,
                    !.log_desc_block_size = ld, !.desc_block_size = Pow2(ld),
                    !.size = sz, !.size_mask = sz - 1, !.full_size = sz \div 2,
                    !.info = [i \in 1..sz |-> None], !.prod_ptr = 0,
                    !.cons_ptr = 0, !.ndev = ndev, !.cq = c]

\* the hardware registers after open's writes; MQNIC_QUEUE_CMD_SET_CQN | None
\* raises TypeError when the CQ is closed, before CQN and pointers are written
HwRing_opened(hw, ring, c) ==
    IF cq[c].cqn # None
    THEN [hw EXCEPT !.enable = FALSE, !.prod_ptr = 0, !.cons_ptr = 0]
    ELSE [hw EXCEPT !.enable = FALSE]

Txq_open(t, ndev, c, size, desc_block_size) ==
    IF txq[t].hw_regs
    THEN /\ Called("Txq.open", t, "AlreadyOpen", 0)
         /\ UNCHANGED <<resVars, objVars, hwVars, driver>>
    ELSE IF txq_res = <<>>
    THEN /\ Called("Txq.open", t, "IndexError", 0)
         /\ UNCHANGED <<resVars, objVars, hwVars, driver>>
    ELSE LET n == Resource_alloc_ret(txq_res)
             ring == Ring_opened(txq[t], n, ndev, c, size, desc_block_size)
         IN /\ txq_res' = Resource_alloc(txq_res)
            /\ txq' = [txq EXCEPT ![t] = ring]
            /\ cq' = [cq EXCEPT ![c].src_ring = t, ![c].handler = "process_tx_cq"]
            /\ hw_txq' = [hw_txq EXCEPT ![n] = HwRing_opened(@, ring, c)]
            /\ Called("Txq.open", t,
                      IF cq[c].cqn # None THEN "ok" ELSE "TypeError",
                      IF cq[c].cqn # None THEN 7 ELSE 4)
            /\ UNCHANGED <<eq_res, cq_res, rxq_res, eq, rxq,
                           hw_eq, hw_cq, hw_rxq, driver>>

Rxq_open(r, ndev, c, size, desc_block_size) ==
    IF rxq[r].hw_regs
    THEN /\ Called("Rxq.open", r, "AlreadyOpen", 0)
         /\ UNCHANGED <<resVars, objVars, hwVars, driver>>
    ELSE IF rxq_res = <<>>
    THEN /\ Called("Rxq.open", r, "IndexError", 0)
         /\ UNCHANGED <<resVars, objVars, hwVars, driver>>
    ELSE LET n == Resource_alloc_ret(rxq_res)
             ring == Ring_opened(rxq[r], n, ndev, c, size, desc_block_size)
             ok == cq[c].cqn # None
             \* refill_buffers() runs only when the register writes went through
             filled == IF ok THEN refill_buffers(ring, driver)
                       ELSE [ring |-> ring, drv |-> driver, writes |-> 0]
         IN /\ rxq_res' = Resource_alloc(rxq_res)
            /\ rxq' = [rxq EXCEPT ![r] = filled.ring]
            /\ driver' = filled.drv
            /\ cq' = [cq EXCEPT ![c].src_ring = r, ![c].handler = "process_rx_cq"]
            /\ hw_rxq' = [hw_rxq EXCEPT ![n] =
                   [HwRing_opened(@, ring, c) EXCEPT
                        !.prod_ptr = IF ok THEN filled.ring.prod_ptr % 65536
                                     ELSE @]]
            /\ Called("Rxq.open", r, IF ok THEN "ok" ELSE "TypeError",
                      IF ok THEN 7 + filled.writes ELSE 4)
            /\ UNCHANGED <<eq_res, cq_res, txq_res, eq, txq,
                           hw_eq, hw_cq, hw_txq>>

\* ---- Txq.close / Rxq.close (mqnic.py 753-771, 940-958) ----

\* the ring object after close()
Ring_closed(ring) ==
    [ring EXCEPT !.enabled = FALSE, !.ndev = NoObj, !.cq = NoObj,
                 !.hw_regs = FALSE, !.index = None]

\* close(): if self.cq: cq.src_ring = None; cq.handler = None
Cq_unbound(ring) ==
    IF ring.cq # NoObj
    THEN [cq EXCEPT ![ring.cq].src_ring = NoObj, ![ring.cq].handler = NoObj]
    ELSE cq

Txq_close(t) ==
    IF ~txq[t].hw_regs
    THEN /\ Called("Txq.close", t, "ok", 0)
         /\ UNCHANGED <<resVars, objVars, hwVars, driver>>
    ELSE /\ hw_txq' = [hw_txq EXCEPT ![txq[t].index].enable = FALSE]
         /\ cq' = Cq_unbound(txq[t])
         /\ txq' = [txq EXCEPT ![t] = Ring_closed(@)]
         /\ txq_res' = Resource_free(txq_res, txq[t].index)
         /\ Called("Txq.close", t, "ok", 1)
         /\ UNCHANGED <<eq_res, cq_res, rxq_res, eq, rxq,
                        hw_eq, hw_cq, hw_rxq, driver>>

Rxq_close(r) ==
    IF ~rxq[r].hw_regs
    THEN /\ Called("Rxq.close", r, "ok", 0)
         /\ UNCHANGED <<resVars, objVars, hwVars, driver>>
    ELSE /\ hw_rxq' = [hw_rxq EXCEPT ![rxq[r].index].enable = FALSE]
         /\ cq' = Cq_unbound(rxq[r])
         /\ rxq' = [rxq EXCEPT ![r] = Ring_closed(@)]
         /\ rxq_res' = Resource_free(rxq_res, rxq[r].index)
         /\ Called("Rxq.close", r, "ok", 1)
         /\ UNCHANGED <<eq_res, cq_res, txq_res, eq, txq,
                        hw_eq, hw_cq, hw_txq, driver>>

\* ---- any sequence of non-overlapping open() / close() calls ----

\* ring size and descriptor block size the calls are made with
QueueSize == 4
DescBlockSize == 4

QueuesInit == ObjInit /\ DriverInit /\ q_kind \in {"tx", "rx"}

QEqOpen == \E e \in EqObjs : Eq_open(e, 0, QueueSize)
QEqClose == \E e \in EqObjs : Eq_close(e)
QCqOpen == \E c \in CqObjs, e \in EqObjs : Cq_open(c, e, QueueSize)
QCqClose == \E c \in CqObjs : Cq_close(c)
QTxqOpen == /\ q_kind = "tx"
            /\ \E t \in TxqObjs, c \in CqObjs :
                   Txq_open(t, "ndev0", c, QueueSize, DescBlockSize)
QTxqClose == q_kind = "tx" /\ \E t \in TxqObjs : Txq_close(t)
QRxqOpen == /\ q_kind = "rx"
            /\ \E r \in RxqObjs, c \in CqObjs :
                   Rxq_open(r, "ndev0", c, QueueSize, DescBlockSize)
QRxqClose == q_kind = "rx" /\ \E r \in RxqObjs : Rxq_close(r)


\* ========================================================================
\* Txq.empty / Txq.full, Rxq.empty / Rxq.full (mqnic.py 789-793, 976-980)
\* ========================================================================

\* empty(): prod_ptr == cons_ptr
Ring_empty(ring) == ring.prod_ptr = ring.cons_ptr

\* a full() that compares the ring indices instead of the counters
Ring_full_masked(ring) ==
    And_mask(ring.prod_ptr, ring.size_mask)
        - And_mask(ring.cons_ptr, ring.size_mask) >= ring.full_size

\* full(): prod_ptr - cons_ptr >= full_size
Ring_full(ring) == ring.prod_ptr - ring.cons_ptr >= ring.full_size

\* rp_ring: a ring object; rp_out: what empty() and full() returned for it,
\* with called FALSE when they were not called since the pointers moved
VARIABLES rp_ring, rp_out

rpVars == <<rp_ring, rp_out>>

\* largest ring size open() is called with
MaxRingSize == 8

\* how far the counters move in one behaviour
MaxAdvance == 10

\* counter values the ring has reached before: none, and just below the
\* 16-bit and the 17-bit boundary
PtrBases == {0, 65535, 131070}

NotCalled == [called |-> FALSE, empty |-> FALSE, full |-> FALSE]

RingFnIdle == rp_ring = Ring_new /\ rp_out = NotCalled

\* a ring opened with any size and already used up to one of the bases
RingFnInit ==
    /\ \E size \in 1..MaxRingSize, base \in PtrBases :
          rp_ring = [Ring_opened(Ring_new, 0, "ndev0", "c0", size, DescBlockSize)
                        EXCEPT !.prod_ptr = base, !.cons_ptr = base]
    /\ rp_out = NotCalled

\* one more descriptor posted (never more than the capacity outstanding)
RingFnProduce ==
    /\ rp_ring.prod_ptr - rp_ring.cons_ptr < rp_ring.size
    /\ \E base \in PtrBases : rp_ring.prod_ptr - base \in 0..(MaxAdvance - 1)
    /\ rp_ring' = [rp_ring EXCEPT !.prod_ptr = @ + 1]
    /\ rp_out' = NotCalled

\* one more descriptor retired
RingFnConsume ==
    /\ rp_ring.cons_ptr < rp_ring.prod_ptr
    /\ rp_ring' = [rp_ring EXCEPT !.cons_ptr = @ + 1]
    /\ rp_out' = NotCalled

\* empty() and full() called
RingFnCall ==
    /\ rp_out' = [called |-> TRUE, empty |-> Ring_empty(rp_ring), full |-> Ring_full(rp_ring)]
    /\ UNCHANGED rp_ring


\* ========================================================================
\* RegBlockList.enumerate_reg_blocks (mqnic.py 406-420)
\* ========================================================================

\* rb_mem: the register space, per block offset the three dwords read at
\* MQNIC_RB_REG_TYPE, MQNIC_RB_REG_VER and MQNIC_RB_REG_NEXT_PTR
\* rb_offset: the local offset; rb_blocks: self.blocks
\* rb_pc: "idle" before the call, "run" at the top of the loop, "done" after
\* the return, "not aligned" / "loop" after the failed assertion
\* rb_find: the last call of find on the list, with its arguments and result
VARIABLES rb_mem, rb_offset, rb_blocks, rb_pc, rb_find

rbVars == <<rb_mem, rb_offset, rb_blocks, rb_pc, rb_find>>

\* number of register blocks in the register space
NumBlocks == 3

\* the block headers lie 16 bytes apart in the register space
BlockOffsets == {16 * k : k \in 0..(NumBlocks - 1)}

\* pointer values that are no multiple of 4 (bit 1 set, bit 0 set)
MisalignedPtrs == {18, 33}

\* type and version dwords found in the headers
RbTags == {<<1, 256>>, <<2, 512>>}

RbIdle ==
    /\ rb_mem = [o \in BlockOffsets |-> [type |-> 0, version |-> 0, next |-> 0]]
    /\ rb_offset = 0
    /\ rb_blocks = <<>>
    /\ rb_pc = "idle"
    /\ rb_find = [called |-> FALSE]

\* RegBlockList.__init__ with any contents of the register space
RbInit ==
    /\ rb_mem \in [BlockOffsets ->
                     {[type |-> t[1], version |-> t[2], next |-> n] :
                         t \in RbTags, n \in BlockOffsets \cup MisalignedPtrs}]
    /\ rb_offset = 0
    /\ rb_blocks = <<>>
    /\ rb_pc = "idle"
    /\ rb_find = [called |-> FALSE]

\* rb = window.create_window(offset); rb.type = ...; rb.version = ...
Rb_new(mem, offset) ==
    [offset |-> offset, type |-> mem[offset].type, version |-> mem[offset].version]

\* blocks.append(rb) done at the wrong end
Rb_prepend(blocks, rb) == <<rb>> \o blocks

\* self.blocks.append(rb)
Rb_append(blocks, rb) == Append(blocks, rb)

\* the alignment assertion alone
Rb_assert_aligned_only(blocks, offset) ==
    IF offset % 4 # 0 THEN "not aligned" ELSE "run"

\* assert offset & 0x3 == 0; for block in self.blocks: assert block.offset != offset
Rb_assert(blocks, offset) ==
    IF offset % 4 # 0 THEN "not aligned"
    ELSE IF \E i \in 1..Len(blocks) : blocks[i].offset = offset THEN "loop"
    ELSE "run"

\* enumerate_reg_blocks(window, offset) entered
enumerate_reg_blocks_call(offset) ==
    /\ rb_pc = "idle"
    /\ rb_offset' = offset
    /\ rb_pc' = "run"
    /\ UNCHANGED <<rb_mem, rb_blocks, rb_find>>

\* one pass of the while loop
enumerate_reg_blocks_step ==
    /\ rb_pc = "run"
    /\ LET rb == Rb_new(rb_mem, rb_offset)
           blocks == Rb_append(rb_blocks, rb)
           offset == rb_mem[rb_offset].next
       IN /\ rb_blocks' = blocks
          /\ rb_offset' = offset
          /\ rb_pc' = IF offset = 0 THEN "done" ELSE Rb_assert(blocks, offset)
    /\ UNCHANGED <<rb_mem, rb_find>>

RbCall == \E offset \in BlockOffsets : enumerate_reg_blocks_call(offset)

RbStep == enumerate_reg_blocks_step

\* ========================================================================
\* SchedulerRoundRobin flow-control registers (mqnic.py 1323-1347)
\* ========================================================================

MQNIC_RB_SCHED_RR_REG_CH_STRIDE == 16
MQNIC_RB_SCHED_RR_REG_CH0_FC2_DB == 40
MQNIC_RB_SCHED_RR_REG_CH0_FC3_DL == 44

\* sch: the scheduler object (tc_count, port_count, fc_scale as set by init())
\* sch_regs: the scheduler's register block, by byte address
\* fc_req: per setter and channel, the value of the last call (None: no call)
\* fc_last: the last call, its channel, argument, return value and exception
VARIABLES sch, sch_regs, fc_req, fc_last

fcVars == <<sch, sch_regs, fc_req, fc_last>>

\* largest exponent of fc_scale in the CFG register
MaxFcShift == 6

\* the ports and traffic classes of the scheduler
FcPorts == {0}

FcTcs == {0, 1}

TcCount == Cardinality(FcTcs)

FcChannels == {port * TcCount + tc : port \in FcPorts, tc \in FcTcs}

FcAddrs ==
    {MQNIC_RB_SCHED_RR_REG_CH0_FC2_DB + ch * MQNIC_RB_SCHED_RR_REG_CH_STRIDE : ch \in FcChannels}
    \cup {MQNIC_RB_SCHED_RR_REG_CH0_FC3_DL + ch * MQNIC_RB_SCHED_RR_REG_CH_STRIDE : ch \in FcChannels}

\* the largest value of a 16-bit register
WordMax == 65535

\* byte counts passed to set_ch_data_budget: small ones, an MTU, and the ones
\* around the largest count a word holds
BudgetValues(fc_scale) ==
    {0, 1, fc_scale + 1, 9000, WordMax * fc_scale, WordMax * fc_scale + 1}

\* byte counts passed to set_ch_data_limit
LimitValues(fc_scale) == {0, 9000, WordMax * fc_scale + 1}

FcNoCall == [op |-> "none", ch |-> 0, val |-> 0, ret |-> 0, exc |-> "none"]

FcIdle ==
    /\ sch = [tc_count |-> TcCount, port_count |-> 1, fc_scale |-> 1]
    /\ sch_regs = [a \in FcAddrs |-> 0]
    /\ fc_req = [db |-> [ch \in FcChannels |-> None], dl |-> [ch \in FcChannels |-> None]]
    /\ fc_last = FcNoCall

\* SchedulerRoundRobin.init(): fc_scale = 1 << ((val >> 16) & 0xff)
FcInit ==
    /\ \E shift \in 0..MaxFcShift :
          sch = [tc_count |-> TcCount, port_count |-> 1, fc_scale |-> Pow2(shift)]
    /\ sch_regs = [a \in FcAddrs |-> 0]
    /\ fc_req = [db |-> [ch \in FcChannels |-> None], dl |-> [ch \in FcChannels |-> None]]
    /\ fc_last = FcNoCall

\* the register window's write_word: a value of up to 16 bits is stored; for
\* a larger one the call raises OverflowError and stores nothing, or stores
\* the low 16 bits
write_word_outcomes(regs, addr, val) ==
    IF val <= WordMax
    THEN {[regs |-> [regs EXCEPT ![addr] = val], exc |-> "none"]}
    ELSE {[regs |-> regs, exc |-> "OverflowError"],
          [regs |-> [regs EXCEPT ![addr] = val % (WordMax + 1)], exc |-> "none"]}

\* the register window's write_dword, for values below 2^31
write_dword(regs, addr, val) == [regs EXCEPT ![addr] = val]

\* val // fc_scale, rounding down
fc_units_floor(val, fc_scale) == val \div fc_scale

\* val = (val + self.fc_scale-1) // self.fc_scale
fc_units(val, fc_scale) == (val + fc_scale - 1) \div fc_scale

\* ch = port*self.tc_count + tc
fc_ch(port, tc) == port * sch.tc_count + tc

set_ch_data_budget(port, tc, val) ==
    LET ch == fc_ch(port, tc)
        addr == MQNIC_RB_SCHED_RR_REG_CH0_FC2_DB + ch * MQNIC_RB_SCHED_RR_REG_CH_STRIDE
    IN \E out \in write_word_outcomes(sch_regs, addr, fc_units(val, sch.fc_scale)) :
          /\ sch_regs' = out.regs
          /\ fc_req' = [fc_req EXCEPT !.db[ch] = val]
          /\ fc_last' = [op |-> "set_ch_data_budget", ch |-> ch, val |-> val,
                         ret |-> 0, exc |-> out.exc]
          /\ UNCHANGED sch

get_ch_data_budget(port, tc) ==
    LET ch == fc_ch(port, tc)
        addr == MQNIC_RB_SCHED_RR_REG_CH0_FC2_DB + ch * MQNIC_RB_SCHED_RR_REG_CH_STRIDE
    IN /\ fc_last' = [op |-> "get_ch_data_budget", ch |-> ch, val |-> 0,
                      ret |-> sch_regs[addr] * sch.fc_scale, exc |-> "none"]
       /\ UNCHANGED <<sch, sch_regs, fc_req>>

set_ch_data_limit(port, tc, val) ==
    LET ch == fc_ch(port, tc)
        addr == MQNIC_RB_SCHED_RR_REG_CH0_FC3_DL + ch * MQNIC_RB_SCHED_RR_REG_CH_STRIDE
    IN /\ sch_regs' = write_dword(sch_regs, addr, fc_units(val, sch.fc_scale))
       /\ fc_req' = [fc_req EXCEPT !.dl[ch] = val]
       /\ fc_last' = [op |-> "set_ch_data_limit", ch |-> ch, val |-> val,
                      ret |-> 0, exc |-> "none"]
       /\ UNCHANGED sch

get_ch_data_limit(port, tc) ==
    LET ch == fc_ch(port, tc)
        addr == MQNIC_RB_SCHED_RR_REG_CH0_FC3_DL + ch * MQNIC_RB_SCHED_RR_REG_CH_STRIDE
    IN /\ fc_last' = [op |-> "get_ch_data_limit", ch |-> ch, val |-> 0,
                      ret |-> sch_regs[addr] * sch.fc_scale, exc |-> "none"]
       /\ UNCHANGED <<sch, sch_regs, fc_req>>

FcSetBudget ==
    \E port \in FcPorts, tc \in FcTcs, val \in BudgetValues(sch.fc_scale) :
        set_ch_data_budget(port, tc, val)

FcGetBudget == \E port \in FcPorts, tc \in FcTcs : get_ch_data_budget(port, tc)

FcSetLimit ==
    \E port \in FcPorts, tc \in FcTcs, val \in LimitValues(sch.fc_scale) :
        set_ch_data_limit(port, tc, val)

FcGetLimit == \E port \in FcPorts, tc \in FcTcs : get_ch_data_limit(port, tc)

\* ========================================================================
\* BaseScheduler.enable / disable through SchedulerPort (mqnic.py 1105-1109,
\* 1191-1202, 1244-1248, 1296-1297)
\* ========================================================================

\* sch_enable_count: BaseScheduler.enable_count
\* sch_ctrl: the hardware register MQNIC_RB_SCHED_RR_REG_CTRL
\* sch_bus: the register writes issued and not yet performed, in issue order
\* sch_view: per SchedulerPort view, where its coroutine is:
\*   "off"            no enable() outstanding
\*   "enable_wait"    in enable(), suspended in await self._enable()
\*   "enable_resume"  the write of _enable() is done, coroutine not yet resumed
\*   "on"             enable() returned
\*   "disable_wait" / "disable_resume"  likewise in disable()
\* sch_last: the last enable()/disable() that returned: whether it wrote the
\*   register, and the count before and after its update
VARIABLES sch_enable_count, sch_ctrl, sch_bus, sch_view, sch_last

schVars == <<sch_enable_count, sch_ctrl, sch_bus, sch_view, sch_last>>

\* number of SchedulerPort views of the scheduler
NumViews == 2

SchedViews == 1..NumViews

SchedNoCall == [op |-> "none", view |-> 0, wrote |-> FALSE, from |-> 0, to |-> 0]

\* BaseScheduler.__init__; the hardware comes up disabled
SchedInit ==
    /\ sch_enable_count = 0
    /\ sch_ctrl = 0
    /\ sch_bus = <<>>
    /\ sch_view = [v \in SchedViews |-> "off"]
    /\ sch_last = SchedNoCall

\* set_ctrl(val): rb.write_dword(MQNIC_RB_SCHED_RR_REG_CTRL, val) issued
set_ctrl(bus, view, val) == Append(bus, [view |-> view, val |-> val])

\* enable() up to its first suspension: if self.enable_count == 0: await self._enable()
sched_enable_call(v) ==
    /\ sch_view[v] = "off"
    /\ IF sch_enable_count = 0
       THEN /\ sch_bus' = set_ctrl(sch_bus, v, 1)
            /\ sch_view' = [sch_view EXCEPT ![v] = "enable_wait"]
            /\ UNCHANGED <<sch_enable_count, sch_last>>
       ELSE /\ sch_enable_count' = sch_enable_count + 1
            /\ sch_view' = [sch_view EXCEPT ![v] = "on"]
            /\ sch_last' = [op |-> "enable", view |-> v, wrote |-> FALSE,
                            from |-> sch_enable_count, to |-> sch_enable_count + 1]
            /\ UNCHANGED sch_bus
    /\ UNCHANGED sch_ctrl

\* enable() resumed after the write: self.enable_count += 1
sched_enable_resume(v) ==
    /\ sch_view[v] = "enable_resume"
    /\ sch_enable_count' = sch_enable_count + 1
    /\ sch_view' = [sch_view EXCEPT ![v] = "on"]
    /\ sch_last' = [op |-> "enable", view |-> v, wrote |-> TRUE,
                    from |-> sch_enable_count, to |-> sch_enable_count + 1]
    /\ UNCHANGED <<sch_ctrl, sch_bus>>

\* disable() up to its suspension: self.enable_count -= 1;
\* if self.enable_count == 0: await self._disable()
sched_disable_call(v) ==
    /\ sch_view[v] = "on"
    /\ sch_enable_count' = sch_enable_count - 1
    /\ IF sch_enable_count - 1 = 0
       THEN /\ sch_bus' = set_ctrl(sch_bus, v, 0)
            /\ sch_view' = [sch_view EXCEPT ![v] = "disable_wait"]
            /\ UNCHANGED sch_last
       ELSE /\ sch_view' = [sch_view EXCEPT ![v] = "off"]
            /\ sch_last' = [op |-> "disable", view |-> v, wrote |-> FALSE,
                            from |-> sch_enable_count, to |-> sch_enable_count - 1]
            /\ UNCHANGED sch_bus
    /\ UNCHANGED sch_ctrl

\* disable() resumed after the write
sched_disable_resume(v) ==
    /\ sch_view[v] = "disable_resume"
    /\ sch_view' = [sch_view EXCEPT ![v] = "off"]
    /\ sch_last' = [op |-> "disable", view |-> v, wrote |-> TRUE,
                    from |-> sch_enable_count + 1, to |-> sch_enable_count]
    /\ UNCHANGED <<sch_enable_count, sch_ctrl, sch_bus>>

\* the oldest register write is performed; its coroutine becomes runnable
sched_bus_write ==
    /\ sch_bus # <<>>
    /\ sch_ctrl' = Head(sch_bus).val
    /\ sch_bus' = Tail(sch_bus)
    /\ sch_view' = [sch_view EXCEPT ![Head(sch_bus).view] =
                        IF @ = "enable_wait" THEN "enable_resume" ELSE "disable_resume"]
    /\ UNCHANGED <<sch_enable_count, sch_last>>

\* disable() calls without an enable() before them, at most
MaxUnmatched == 2

\* disable() called through a view that has not called enable(): the same
\* statements, self.enable_count -= 1; if self.enable_count == 0: await
\* self._disable()
sched_disable_unmatched(v) ==
    /\ sch_view[v] = "off"
    /\ sch_enable_count > 0 - MaxUnmatched
    /\ sch_enable_count' = sch_enable_count - 1
    /\ IF sch_enable_count - 1 = 0
       THEN /\ sch_bus' = set_ctrl(sch_bus, v, 0)
            /\ sch_view' = [sch_view EXCEPT ![v] = "disable_wait"]
            /\ UNCHANGED sch_last
       ELSE /\ sch_last' = [op |-> "disable", view |-> v, wrote |-> FALSE,
                            from |-> sch_enable_count, to |-> sch_enable_count - 1]
            /\ UNCHANGED <<sch_bus, sch_view>>
    /\ UNCHANGED sch_ctrl

SchedDisableUnmatched == \E v \in SchedViews : sched_disable_unmatched(v)

SchedEnableCall == \E v \in SchedViews : sched_enable_call(v)

SchedEnableResume == \E v \in SchedViews : sched_enable_resume(v)

SchedDisableCall == \E v \in SchedViews : sched_disable_call(v)

SchedDisableResume == \E v \in SchedViews : sched_disable_resume(v)

SchedBusWrite == sched_bus_write

\* ========================================================================
\* Data path of one network device: NetDev.open, NetDev.start_xmit,
\* Driver.interrupt_handler, Eq.process_eq, Txq.process_tx_cq,
\* Rxq.process_rx_cq (mqnic.py 559-584, 813-863, 1026-1091, 1448-1508,
\* 1557-1614, 2149-2156), with the hardware as its environment
\* ========================================================================

\* ndev: the NetDev: port_up, pkt_rx_queue (the packets in it), and how far its
\*   open() has run: "closed", "cq", "ring", "enabled", "up"
\* pe: the interrupt worker running interrupt_handler -> process_eq:
\*   pc "idle"; "handler_wait": inside cq.handler, suspended in
\*   cq.write_cons_ptr(); "arm_wait": suspended in cq.arm(); "write_cons":
\*   suspended in eq.write_cons_ptr(); "dead": ended by an exception;
\*   eq_cons_ptr: the local of process_eq
\* hw_pend: the descriptors (by counter value) the hardware has been given
\*   and has not completed
\* cq_log: the index fields of the completions the hardware wrote to the CQ
\*   and of those the handler consumed, in order
\* dp_last: what the last run of refill_buffers() found and did
VARIABLES ndev, pe, hw_pend, cq_log, dp_last

dpVars == <<ndev, pe, hw_pend, cq_log, dp_last>>

\* the objects of the device: Interface.eq[0], and the CQ and ring that
\* NetDev.open creates
DpEq == "e0"
DpCq == "c0"
DpTxq == "t0"
DpRxq == "r0"

NoRefill == [missing |-> 0, allocs |-> 0, prod_before |-> 0, writes |-> 0,
             same |-> TRUE, after |-> "none"]

\* what a run of refill_buffers() on ring with allocator drv found and did:
\* the missing slots, the alloc_pkt() calls, prod_ptr before, the
\* write_prod_ptr() calls, and whether ring and allocator stayed as they were
Refilled(ring, drv, filled, after) ==
    [missing |-> refill_missing(ring),
     allocs |-> Len(drv.free_packets) - Len(filled.drv.free_packets)
                + Len(filled.drv.allocated_packets) - Len(drv.allocated_packets),
     prod_before |-> ring.prod_ptr,
     writes |-> filled.writes,
     same |-> (filled.ring = ring /\ filled.drv = drv),
     after |-> after]

DpInit ==
    /\ ndev = [port_up |-> FALSE, pkt_rx_queue |-> <<>>, open_pc |-> "closed"]
    /\ pe = [pc |-> "idle", eq_cons_ptr |-> 0]
    /\ hw_pend = {}
    /\ cq_log = [produced |-> <<>>, consumed |-> <<>>]
    /\ dp_last = NoRefill

\* sizes the EQ, the CQ and the TX ring are opened with
EqSize == 2
CqSize == 2
TxRingSize == 4

\* packets handed to start_xmit in one behaviour
MaxXmit == 5

\* events the hardware writes in one behaviour
MaxEvents == 5

\* a scan with the polarity of the phase test reversed
phase_valid_inverted(entry, ptr, size) == entry.phase = BitTest(ptr, size)

\* a slot is taken as produced when bit 31 of its last word differs from
\* bool(ptr & size):  if bool(word & 0x80000000) == bool(ptr & size): break
phase_valid(entry, ptr, size) == entry.phase # BitTest(ptr, size)

\* free_desc without clearing the ownership slot
Ring_free_desc_keep(ring, index) == ring

\* Txq.free_desc / Rxq.free_desc: the ring afterwards (info[index] = None)
Ring_free_desc(ring, index) == [ring EXCEPT !.info[index + 1] = None]

\* the packet process_rx_cq would build without looking at the length field
Rx_skb_no_len(ring, entry) ==
    [data |-> [buf |-> ring.info[And_mask(entry.index, ring.size_mask) + 1],
               len |-> 0],
     queue |-> ring.index]

\* the packet process_rx_cq builds for a completion: skb.data = pkt[:length]
\* with pkt = ring.rx_info[ring_index], skb.queue = ring.index
Rx_skb(ring, entry) ==
    [data |-> [buf |-> ring.info[And_mask(entry.index, ring.size_mask) + 1],
               len |-> entry.len],
     queue |-> ring.index]

\* the completion-queue loop of process_tx_cq / process_rx_cq from cq_cons_ptr
\* on: the pointer it stops at, ring and allocator afterwards, the index
\* fields of the records it handled, the packets process_rx_cq appended to
\* the receive queue (each built before its slot is freed), and whether
\* free_pkt's assertions held
RECURSIVE Cq_drain(_, _, _, _)
Cq_drain(c, ring, drv, cq_cons_ptr) ==
    LET entry == c.buf[And_mask(cq_cons_ptr, c.size_mask) + 1]
        ring_index == And_mask(entry.index, ring.size_mask)
        pkt == ring.info[ring_index + 1]
    IN IF ~phase_valid(entry, cq_cons_ptr, c.size)
       THEN [ptr |-> cq_cons_ptr, ring |-> ring, drv |-> drv,
             handled |-> <<>>, pkts |-> <<>>, ok |-> TRUE]
       ELSE IF ~free_pkt_ok(drv, pkt)
       THEN [ptr |-> cq_cons_ptr, ring |-> ring, drv |-> drv,
             handled |-> <<>>, pkts |-> <<>>, ok |-> FALSE]
       ELSE LET rest == Cq_drain(c, Ring_free_desc(ring, ring_index),
                                 free_pkt(drv, pkt), cq_cons_ptr + 1)
            IN [rest EXCEPT !.handled = <<entry.index>> \o @,
                            !.pkts = <<Rx_skb(ring, entry)>> \o @]

\* a ring loop that does not stop at an owned slot
Ring_walk_all(ring, ring_cons_ptr) == ring.prod_ptr

\* the ring loop of process_tx_cq / process_rx_cq: the new cons_ptr
RECURSIVE Ring_walk(_, _)
Ring_walk(ring, ring_cons_ptr) ==
    IF ring_cons_ptr # ring.prod_ptr
          /\ ring.info[And_mask(ring_cons_ptr, ring.size_mask) + 1] = None
    THEN Ring_walk(ring, ring_cons_ptr + 1)
    ELSE ring_cons_ptr

\* ---- bring-up: Interface.init opens the EQ, NetDev.open the rest ----

DpOpenEq ==
    /\ ~eq[DpEq].hw_regs
    /\ Eq_open(DpEq, 0, EqSize)
    /\ UNCHANGED dpVars

\* cq = create_cq(); await cq.open(eq, size); await cq.arm()
DpOpenCq ==
    /\ ndev.open_pc = "closed" /\ eq[DpEq].hw_regs
    /\ Cq_open(DpCq, DpEq, CqSize)
    /\ ndev' = [ndev EXCEPT !.open_pc = "cq"]
    /\ UNCHANGED <<pe, hw_pend, cq_log, dp_last>>

\* txq = create_txq(); await txq.open(self, cq, tx_ring_size, 4)
DpOpenTxq ==
    /\ q_kind = "tx" /\ ndev.open_pc = "cq"
    /\ Txq_open(DpTxq, "ndev0", DpCq, TxRingSize, DescBlockSize)
    /\ ndev' = [ndev EXCEPT !.open_pc = "ring"]
    /\ UNCHANGED <<pe, hw_pend, cq_log, dp_last>>

\* await q.enable()
DpEnableTxq ==
    /\ q_kind = "tx" /\ ndev.open_pc = "ring"
    /\ txq' = [txq EXCEPT ![DpTxq].enabled = TRUE]
    /\ hw_txq' = [hw_txq EXCEPT ![txq[DpTxq].index].enable = TRUE]
    /\ ndev' = [ndev EXCEPT !.open_pc = "enabled"]
    /\ UNCHANGED <<resVars, eq, cq, rxq, hw_eq, hw_cq, hw_rxq, driver,
                   callVars, pe, hw_pend, cq_log, dp_last>>

\* size the RX ring is opened with
RxRingSize == 16

\* completions the hardware writes for the RX ring in one behaviour
MaxRx == 10

\* the RX hardware completes one of the RxWindow oldest descriptors it holds
RxWindow == 1

\* rxq = create_rxq(); await rxq.open(self, cq, rx_ring_size, 4), which
\* ends with refill_buffers()
DpOpenRxq ==
    /\ q_kind = "rx" /\ ndev.open_pc = "cq"
    /\ Rxq_open(DpRxq, "ndev0", DpCq, RxRingSize, DescBlockSize)
    /\ ndev' = [ndev EXCEPT !.open_pc = "ring"]
    /\ hw_pend' = 0..(rxq'[DpRxq].prod_ptr - 1)
    /\ dp_last' =
          LET ring == Ring_opened(rxq[DpRxq], Resource_alloc_ret(rxq_res),
                                  "ndev0", DpCq, RxRingSize, DescBlockSize)
          IN Refilled(ring, driver, [ring |-> rxq'[DpRxq], drv |-> driver',
                                     writes |-> IF hw_rxq'[ring.index].prod_ptr
                                                      # hw_rxq[ring.index].prod_ptr
                                                THEN 1 ELSE 0], "open")
    /\ UNCHANGED <<pe, cq_log>>

\* await q.enable()
DpEnableRxq ==
    /\ q_kind = "rx" /\ ndev.open_pc = "ring"
    /\ rxq' = [rxq EXCEPT ![DpRxq].enabled = TRUE]
    /\ hw_rxq' = [hw_rxq EXCEPT ![rxq[DpRxq].index].enable = TRUE]
    /\ ndev' = [ndev EXCEPT !.open_pc = "enabled"]
    /\ UNCHANGED <<resVars, eq, cq, txq, hw_eq, hw_cq, hw_txq, driver,
                   callVars, pe, hw_pend, cq_log, dp_last>>

\* self.port_up = True
DpPortUp ==
    /\ ndev.open_pc = "enabled"
    /\ ndev' = [ndev EXCEPT !.open_pc = "up", !.port_up = TRUE]
    /\ UNCHANGED <<resVars, objVars, hwVars, driver, callVars,
                   pe, hw_pend, cq_log, dp_last>>

\* ---- NetDev.start_xmit (mqnic.py 1557-1614) ----

\* a space check against the whole ring instead of half of it
xmit_has_space_capacity(ring) == ring.prod_ptr - ring.cons_ptr < ring.size

\* a submit path without the space check
xmit_has_space_unchecked(ring) == TRUE

\* check for space in ring: if ring.prod_ptr - ring.cons_ptr < ring.full_size
xmit_has_space(ring) == ring.prod_ptr - ring.cons_ptr < ring.full_size

\* with space in the ring: a buffer is allocated, recorded in tx_info and
\* the producer pointer published; without: clean_event.clear() and wait
start_xmit ==
    /\ ndev.port_up
    /\ txq[DpTxq].prod_ptr < MaxXmit
    /\ LET ring == txq[DpTxq]
           index == And_mask(ring.prod_ptr, ring.size_mask)
       IN IF ~xmit_has_space(ring)
          THEN /\ txq' = [txq EXCEPT ![DpTxq].clean_event = FALSE]
               /\ Called("start_xmit", DpTxq, "wait", 0)
               /\ UNCHANGED <<driver, hw_txq, hw_pend>>
          ELSE IF ring.info[index + 1] # None
          THEN /\ driver' = alloc_pkt(driver)
               /\ Called("start_xmit", DpTxq, "AssertionError", 0)
               /\ UNCHANGED <<txq, hw_txq, hw_pend>>
          ELSE /\ driver' = alloc_pkt(driver)
               /\ txq' = [txq EXCEPT ![DpTxq].info[index + 1] = alloc_pkt_ret(driver),
                                     ![DpTxq].prod_ptr = @ + 1]
               /\ hw_txq' = [hw_txq EXCEPT ![ring.index].prod_ptr =
                                 (ring.prod_ptr + 1) % 65536]
               /\ hw_pend' = hw_pend \cup {ring.prod_ptr}
               /\ Called("start_xmit", DpTxq, "ok", 1)
    /\ UNCHANGED <<resVars, eq, cq, rxq, hw_eq, hw_cq, hw_rxq,
                   ndev, pe, cq_log, dp_last>>

\* ---- the hardware ----

\* the hardware completes one of the descriptors it holds and writes the
\* completion record, with the length it transferred and the phase of its
\* pass, at its producer pointer
HwCompleteLen(d, len) ==
    LET c == cq[DpCq]
        hw == hw_cq[c.cqn]
    IN /\ d \in hw_pend
       /\ c.hw_regs /\ hw.enable
       /\ (hw.prod_ptr - hw.cons_ptr) % 65536 < c.size
       /\ cq' = [cq EXCEPT ![DpCq].buf[And_mask(hw.prod_ptr, c.size_mask) + 1] =
                     [index |-> d % 65536, len |-> len,
                      phase |-> ~BitTest(hw.prod_ptr, c.size)]]
       /\ hw_cq' = [hw_cq EXCEPT ![c.cqn].prod_ptr = (@ + 1) % 65536]
       /\ hw_pend' = hw_pend \ {d}
       /\ cq_log' = [cq_log EXCEPT !.produced = Append(@, d % 65536)]
       /\ UNCHANGED <<resVars, eq, txq, rxq, hw_eq, hw_txq, hw_rxq, driver,
                      callVars, ndev, pe, dp_last>>

HwComplete(d) == HwCompleteLen(d, 0)

\* event types the hardware writes: MQNIC_EVENT_TYPE_CPL and another one
EventTypes == {0, 1}

\* the hardware writes an event of the given type and source into the EQ
HwEventFrom(type, src) ==
    LET e == eq[DpEq]
        hw == hw_eq[e.eqn]
    IN /\ e.hw_regs /\ hw.enable
       /\ ndev.open_pc \in {"enabled", "up"}
       /\ hw.prod_ptr < MaxEvents
       /\ (hw.prod_ptr - hw.cons_ptr) % 65536 < e.size
       /\ eq' = [eq EXCEPT ![DpEq].buf[And_mask(hw.prod_ptr, e.size_mask) + 1] =
                     [type |-> type, src |-> src,
                      phase |-> ~BitTest(hw.prod_ptr, e.size)]]
       /\ hw_eq' = [hw_eq EXCEPT ![e.eqn].prod_ptr = (@ + 1) % 65536]
       /\ UNCHANGED <<resVars, cq, txq, rxq, hw_cq, hw_txq, hw_rxq, driver,
                      callVars, dpVars>>

\* the hardware writes an event, for the CQ or of the other type, into the EQ
HwEvent(type) == HwEventFrom(type, cq[DpCq].cqn)

\* await cq.arm() of NetDev.open
DpArmCq ==
    /\ ndev.open_pc = "cq"
    /\ cq[DpCq].hw_regs
    /\ ~hw_cq[cq[DpCq].cqn].arm
    /\ hw_cq' = [hw_cq EXCEPT ![cq[DpCq].cqn].arm = TRUE]
    /\ UNCHANGED <<resVars, objVars, hw_eq, hw_txq, hw_rxq, driver,
                   callVars, dpVars>>

\* ---- Driver.interrupt_handler -> Eq.process_eq (mqnic.py 559-584) ----

\* a scan that stops at every produced event, whatever its type
Eq_skip_none(e, eq_cons_ptr) == eq_cons_ptr

\* a scan that takes the slot at its pointer without testing the phase bit
Eq_skip_unchecked(e, eq_cons_ptr) == eq_cons_ptr + 1

\* process_eq's loop runs on without suspending over events that are no
\* completion events: the pointer of the first slot that is not produced or
\* holds a completion event
RECURSIVE Eq_skip(_, _)
Eq_skip(e, eq_cons_ptr) ==
    LET entry == e.buf[And_mask(eq_cons_ptr, e.size_mask) + 1]
    IN IF phase_valid(entry, eq_cons_ptr, e.size) /\ entry.type # 0
       THEN Eq_skip(e, eq_cons_ptr + 1)
       ELSE eq_cons_ptr

\* a lookup that falls back to an attached CQ when the source is unknown
Eq_lookup_any(e, src) ==
    IF DictHas(e.cq_table, src) THEN DictGet(e.cq_table, src)
    ELSE IF e.cq_table = {} THEN "KeyError"
    ELSE (CHOOSE p \in e.cq_table : TRUE)[2]

\* cq = self.cq_table[event_data[1]]: the CQ, or the KeyError of the dict
Eq_lookup(e, src) ==
    IF DictHas(e.cq_table, src) THEN DictGet(e.cq_table, src) ELSE "KeyError"

\* the ring a CQ's handler works on
HandlerRing(c) ==
    IF cq[c].handler = "process_tx_cq" THEN txq[cq[c].src_ring]
    ELSE rxq[cq[c].src_ring]

\* await cq.arm() of process_eq: the CQ number the arm command is written
\* to, None when the CQ is closed (if not self.hw_regs: return)
Cq_arm_target(c) == IF cq[c].hw_regs THEN cq[c].cqn ELSE None

\* process_eq from the top of its loop, at the start of interrupt_handler or
\* after the previous event's cq.arm(), up to its next suspension
process_eq_run ==
    /\ pe.pc \in {"idle", "arm_wait"}
    /\ eq[DpEq].hw_regs
    /\ LET e == eq[DpEq]
           first == IF pe.pc = "idle" THEN e.cons_ptr ELSE pe.eq_cons_ptr + 1
           eq_cons_ptr == Eq_skip(e, first)
           entry == e.buf[And_mask(eq_cons_ptr, e.size_mask) + 1]
           armed == IF pe.pc = "arm_wait" /\ pe.arm # None
                    THEN [hw_cq EXCEPT ![pe.arm].arm = TRUE]
                    ELSE hw_cq
       IN IF ~phase_valid(entry, eq_cons_ptr, e.size)
          THEN \* EQ empty: self.cons_ptr = eq_cons_ptr; await write_cons_ptr()
               /\ eq' = [eq EXCEPT ![DpEq].cons_ptr = eq_cons_ptr]
               /\ pe' = [pc |-> "write_cons", eq_cons_ptr |-> eq_cons_ptr]
               /\ hw_cq' = armed
               /\ Called("process_eq", DpEq, "ok", 1)
               /\ UNCHANGED <<cq, txq, rxq, driver, ndev, cq_log>>
          ELSE IF Eq_lookup(e, entry.src) = "KeyError"
          THEN /\ pe' = [pc |-> "dead", eq_cons_ptr |-> eq_cons_ptr]
               /\ hw_cq' = armed
               /\ Called("process_eq", DpEq, "KeyError", 0)
               /\ UNCHANGED <<eq, cq, txq, rxq, driver, ndev, cq_log>>
          ELSE LET c == Eq_lookup(e, entry.src)
               IN IF cq[c].handler = NoObj
                  THEN /\ pe' = [pc |-> "dead", eq_cons_ptr |-> eq_cons_ptr]
                       /\ hw_cq' = armed
                       /\ Called("process_eq", DpEq, "TypeError", 0)
                       /\ UNCHANGED <<eq, cq, txq, rxq, driver, ndev, cq_log>>
                  ELSE IF ~ndev.port_up
                  THEN \* handler: "Port not up, aborting"; then await cq.arm()
                       /\ pe' = [pc |-> "arm_wait", eq_cons_ptr |-> eq_cons_ptr,
                                 cq |-> c, arm |-> Cq_arm_target(c)]
                       /\ hw_cq' = armed
                       /\ Called("process_eq", DpEq, "ok", 1)
                       /\ UNCHANGED <<eq, cq, txq, rxq, driver, ndev, cq_log>>
                  ELSE LET d == Cq_drain(cq[c], HandlerRing(c), driver, cq[c].cons_ptr)
                           tx == cq[c].handler = "process_tx_cq"
                       IN /\ txq' = IF tx THEN [txq EXCEPT ![cq[c].src_ring] = d.ring]
                                    ELSE txq
                          /\ rxq' = IF tx THEN rxq
                                    ELSE [rxq EXCEPT ![cq[c].src_ring] = d.ring]
                          /\ driver' = d.drv
                          /\ cq_log' = [cq_log EXCEPT !.consumed = @ \o d.handled]
                          /\ ndev' = IF tx THEN ndev
                                     ELSE [ndev EXCEPT !.pkt_rx_queue = @ \o d.pkts]
                          /\ hw_cq' = armed
                          /\ UNCHANGED eq
                          /\ IF d.ok
                             THEN \* cq.cons_ptr = cq_cons_ptr; await cq.write_cons_ptr()
                                  /\ cq' = [cq EXCEPT ![c].cons_ptr = d.ptr]
                                  /\ pe' = [pc |-> "handler_wait",
                                            eq_cons_ptr |-> eq_cons_ptr,
                                            cq |-> c, cqn |-> cq[c].cqn,
                                            cons |-> d.ptr, tx |-> tx,
                                            ring |-> cq[c].src_ring]
                                  /\ Called("process_eq", DpEq, "ok", 1)
                             ELSE /\ cq' = cq
                                  /\ pe' = [pc |-> "dead", eq_cons_ptr |-> eq_cons_ptr]
                                  /\ Called("process_eq", DpEq, "AssertionError", 0)
    /\ UNCHANGED <<resVars, hw_eq, hw_txq, hw_rxq, hw_pend, dp_last>>

\* a handler that raises the notification only when the ring walk moved
\* cons_ptr
Clean_event_set_on_progress(ring, walked) ==
    IF walked.cons_ptr # ring.cons_ptr THEN [walked EXCEPT !.clean_event = TRUE]
    ELSE walked

\* ring.clean_event.set() at the end of process_tx_cq, after the ring walk
\* took ring to walked
Clean_event_set(ring, walked) == [walked EXCEPT !.clean_event = TRUE]

\* the CQ handler resumed after cq.write_cons_ptr(): the ring loop, then
\* clean_event.set() (TX) or refill_buffers() (RX); process_eq then suspends
\* in cq.arm().  The handler works on its locals cq and ring, bound when it
\* was entered (pe.cq, pe.ring), and the register write carries the CQ
\* number and pointer it was issued with (pe.cqn, pe.cons)
handler_resume ==
    /\ pe.pc = "handler_wait"
    /\ LET c == pe.cq
           tx == pe.tx
           ring == IF tx THEN txq[pe.ring] ELSE rxq[pe.ring]
           walked == [ring EXCEPT !.cons_ptr = Ring_walk(ring, ring.cons_ptr)]
           filled == refill_buffers(walked, driver)
       IN /\ hw_cq' = [hw_cq EXCEPT ![pe.cqn].cons_ptr = pe.cons % 65536]
          /\ IF tx
             THEN /\ txq' = [txq EXCEPT ![pe.ring] = Clean_event_set(ring, walked)]
                  /\ UNCHANGED <<rxq, driver, hw_rxq, hw_pend, dp_last>>
             ELSE /\ rxq' = [rxq EXCEPT ![pe.ring] = filled.ring]
                  /\ driver' = filled.drv
                  /\ hw_rxq' = [hw_rxq EXCEPT ![ring.index].prod_ptr =
                                    filled.ring.prod_ptr % 65536]
                  /\ hw_pend' = hw_pend \cup
                                    (walked.prod_ptr..(filled.ring.prod_ptr - 1))
                  /\ dp_last' = Refilled(walked, driver, filled, "process_rx_cq")
                  /\ UNCHANGED txq
          /\ pe' = [pc |-> "arm_wait", eq_cons_ptr |-> pe.eq_cons_ptr,
                    cq |-> c, arm |-> Cq_arm_target(c)]
    /\ UNCHANGED <<resVars, eq, cq, hw_eq, hw_txq, callVars, ndev, cq_log>>

\* process_eq resumed after eq.write_cons_ptr(); interrupt_handler then
\* arms the EQ and ends
process_eq_end ==
    /\ pe.pc = "write_cons"
    /\ hw_eq' = [hw_eq EXCEPT ![eq[DpEq].eqn] =
                     [@ EXCEPT !.cons_ptr = eq[DpEq].cons_ptr % 65536,
                               !.arm = TRUE]]
    /\ pe' = [pe EXCEPT !.pc = "idle"]
    /\ UNCHANGED <<resVars, objVars, hw_cq, hw_txq, hw_rxq, driver, callVars,
                   ndev, hw_pend, cq_log, dp_last>>

DpStartXmit == q_kind = "tx" /\ start_xmit

DpHwComplete == \E d \in hw_pend : HwComplete(d)

\* a packet arrives: the RX hardware completes one of the oldest descriptors
DpHwRxComplete ==
    /\ rxq[DpRxq].hw_regs
    /\ hw_rxq[rxq[DpRxq].index].enable
    /\ Len(cq_log.produced) < MaxRx
    /\ \E d \in hw_pend :
          /\ \A o \in hw_pend : d - o < RxWindow
          /\ HwComplete(d)

DpHwEvent == \E type \in EventTypes : HwEvent(type)

DpProcessEq == process_eq_run

DpHandlerResume == handler_resume

DpProcessEqEnd == process_eq_end

\* ========================================================================
\* Teardown calls on one object of each kind: close(), disable(), arm()
\* (mqnic.py 527-557, 651-676, 753-787, 940-974)
\* ========================================================================

\* Eq.arm: if not self.hw_regs: return; one register write otherwise
Eq_arm(e) ==
    /\ IF ~eq[e].hw_regs
       THEN /\ Called("Eq.arm", e, "ok", 0)
            /\ UNCHANGED hw_eq
       ELSE /\ hw_eq' = [hw_eq EXCEPT ![eq[e].eqn].arm = TRUE]
            /\ Called("Eq.arm", e, "ok", 1)
    /\ UNCHANGED <<resVars, objVars, hw_cq, hw_txq, hw_rxq, driver>>

\* Cq.arm: if not self.hw_regs: return; one register write otherwise
Cq_arm(c) ==
    /\ IF ~cq[c].hw_regs
       THEN /\ Called("Cq.arm", c, "ok", 0)
            /\ UNCHANGED hw_cq
       ELSE /\ hw_cq' = [hw_cq EXCEPT ![cq[c].cqn].arm = TRUE]
            /\ Called("Cq.arm", c, "ok", 1)
    /\ UNCHANGED <<resVars, objVars, hw_eq, hw_txq, hw_rxq, driver>>

\* Txq.disable: if not self.hw_regs: return; else the enable bit is written
\* 0 and enabled = False
Txq_disable(t) ==
    /\ IF ~txq[t].hw_regs
       THEN /\ Called("Txq.disable", t, "ok", 0)
            /\ UNCHANGED <<txq, hw_txq>>
       ELSE /\ hw_txq' = [hw_txq EXCEPT ![txq[t].index].enable = FALSE]
            /\ txq' = [txq EXCEPT ![t].enabled = FALSE]
            /\ Called("Txq.disable", t, "ok", 1)
    /\ UNCHANGED <<resVars, eq, cq, rxq, hw_eq, hw_cq, hw_rxq, driver>>

\* Rxq.disable
Rxq_disable(r) ==
    /\ IF ~rxq[r].hw_regs
       THEN /\ Called("Rxq.disable", r, "ok", 0)
            /\ UNCHANGED <<rxq, hw_rxq>>
       ELSE /\ hw_rxq' = [hw_rxq EXCEPT ![rxq[r].index].enable = FALSE]
            /\ rxq' = [rxq EXCEPT ![r].enabled = FALSE]
            /\ Called("Rxq.disable", r, "ok", 1)
    /\ UNCHANGED <<resVars, eq, cq, txq, hw_eq, hw_cq, hw_txq, driver>>

\* Txq.enable / Rxq.enable: raise when not open, else write the enable bit
Txq_enable(t) ==
    /\ IF ~txq[t].hw_regs
       THEN /\ Called("Txq.enable", t, "NotOpen", 0)
            /\ UNCHANGED <<txq, hw_txq>>
       ELSE /\ hw_txq' = [hw_txq EXCEPT ![txq[t].index].enable = TRUE]
            /\ txq' = [txq EXCEPT ![t].enabled = TRUE]
            /\ Called("Txq.enable", t, "ok", 1)
    /\ UNCHANGED <<resVars, eq, cq, rxq, hw_eq, hw_cq, hw_rxq, driver>>

Rxq_enable(r) ==
    /\ IF ~rxq[r].hw_regs
       THEN /\ Called("Rxq.enable", r, "NotOpen", 0)
            /\ UNCHANGED <<rxq, hw_rxq>>
       ELSE /\ hw_rxq' = [hw_rxq EXCEPT ![rxq[r].index].enable = TRUE]
            /\ rxq' = [rxq EXCEPT ![r].enabled = TRUE]
            /\ Called("Rxq.enable", r, "ok", 1)
    /\ UNCHANGED <<resVars, eq, cq, txq, hw_eq, hw_cq, hw_txq, driver>>

\* td_call: the call made last, as method and object
VARIABLES td_call

tdVars == <<td_call>>

TdIdle == td_call = [op |-> "none", obj |-> NoObj]

TdCall(op, obj) == td_call' = [op |-> op, obj |-> obj]

\* whether a queue object is open (hw_regs is set)
IsOpen(obj) ==
    IF obj \in EqObjs THEN eq[obj].hw_regs
    ELSE IF obj \in CqObjs THEN cq[obj].hw_regs
    ELSE IF obj \in TxqObjs THEN txq[obj].hw_regs
    ELSE rxq[obj].hw_regs

TdEqOpen == Eq_open(DpEq, 0, QueueSize) /\ TdCall("open", DpEq)
TdEqClose == Eq_close(DpEq) /\ TdCall("close", DpEq)
TdEqArm == Eq_arm(DpEq) /\ TdCall("arm", DpEq)
TdCqOpen == Cq_open(DpCq, DpEq, QueueSize) /\ TdCall("open", DpCq)
TdCqClose == Cq_close(DpCq) /\ TdCall("close", DpCq)
TdCqArm == Cq_arm(DpCq) /\ TdCall("arm", DpCq)
TdTxqOpen ==
    /\ q_kind = "tx"
    /\ Txq_open(DpTxq, "ndev0", DpCq, QueueSize, DescBlockSize)
    /\ TdCall("open", DpTxq)
TdTxqEnable == q_kind = "tx" /\ Txq_enable(DpTxq) /\ TdCall("enable", DpTxq)
TdTxqDisable == q_kind = "tx" /\ Txq_disable(DpTxq) /\ TdCall("disable", DpTxq)
TdTxqClose == q_kind = "tx" /\ Txq_close(DpTxq) /\ TdCall("close", DpTxq)
TdRxqOpen ==
    /\ q_kind = "rx"
    /\ Rxq_open(DpRxq, "ndev0", DpCq, QueueSize, DescBlockSize)
    /\ TdCall("open", DpRxq)
TdRxqEnable == q_kind = "rx" /\ Rxq_enable(DpRxq) /\ TdCall("enable", DpRxq)
TdRxqDisable == q_kind = "rx" /\ Rxq_disable(DpRxq) /\ TdCall("disable", DpRxq)
TdRxqClose == q_kind = "rx" /\ Rxq_close(DpRxq) /\ TdCall("close", DpRxq)

\* ========================================================================
\* NetDev.open / NetDev.close / NetDev.start_xmit with several submitters
\* (mqnic.py 1448-1614), Interface.alloc_sched_port (1952-1953)
\* ========================================================================

\* dev_call: whether the last step was a call of open() or of close();
\* xm: where each caller of start_xmit is: "out" of the call, in "wait" at
\* clean_event.wait(), or "woken" by clean_event.set() and not yet resumed;
\* free_sched_ports: Interface.free_sched_ports; sched_port: NetDev.sched_port
VARIABLES dev_call, xm, free_sched_ports, sched_port

devVars == <<dev_call, xm, free_sched_ports, sched_port>>

\* coroutines that call start_xmit
NumSubmitters == 2

\* start_xmit is called until the ring has taken this many packets
DevMaxXmit == 3

\* events the hardware writes while the device is modelled with submitters
DevMaxEvents == 3

Submitters == 1..NumSubmitters

\* the scheduler ports registered with the interface
SchedPorts == <<"sp0">>

DevIdle ==
    /\ dev_call = "step"
    /\ xm = [s \in Submitters |-> "out"]
    /\ free_sched_ports = <<>>
    /\ sched_port = NoObj

DevInit ==
    /\ dev_call = "step"
    /\ xm = [s \in Submitters |-> "out"]
    /\ free_sched_ports = SchedPorts
    /\ sched_port = NoObj

DevCall(op) == dev_call' = op

\* NetDev.open up to its first suspension: returns at once when the port is
\* up; otherwise takes a scheduler port, creates the CQ and calls cq.open()
NetDev_open ==
    /\ IF ndev.port_up
       THEN /\ Called("NetDev.open", "ndev0", "ok", 0)
            /\ UNCHANGED <<resVars, objVars, hwVars, driver, dpVars,
                           free_sched_ports, sched_port>>
       ELSE /\ ndev.open_pc = "closed"
            /\ eq[DpEq].hw_regs
            /\ free_sched_ports # <<>>
            /\ sched_port' = Head(free_sched_ports)
            /\ free_sched_ports' = Tail(free_sched_ports)
            /\ Cq_open(DpCq, DpEq, CqSize)
            /\ ndev' = [ndev EXCEPT !.open_pc = "cq"]
            /\ UNCHANGED <<pe, hw_pend, cq_log, dp_last>>
    /\ DevCall("open")
    /\ UNCHANGED xm

\* a close() that skips the test of port_up
NetDev_close_unguarded ==
    /\ ndev' = [ndev EXCEPT !.port_up = FALSE]
    /\ Called("NetDev.close", "ndev0", "AttributeError", 0)
    /\ UNCHANGED <<resVars, objVars, hwVars, driver, pe, hw_pend, cq_log,
                   dp_last>>
    /\ DevCall("close")
    /\ UNCHANGED <<xm, free_sched_ports, sched_port>>

\* a close() that empties the ring before it fails
NetDev_close_drains ==
    /\ IF ~ndev.port_up
       THEN /\ Called("NetDev.close", "ndev0", "ok", 0)
            /\ UNCHANGED <<ndev, txq>>
       ELSE /\ ndev' = [ndev EXCEPT !.port_up = FALSE]
            /\ txq' = [txq EXCEPT ![DpTxq].cons_ptr = txq[DpTxq].prod_ptr]
            /\ Called("NetDev.close", "ndev0", "AttributeError", 0)
    /\ UNCHANGED <<resVars, eq, cq, rxq, hwVars, driver, pe, hw_pend, cq_log,
                   dp_last>>
    /\ DevCall("close")
    /\ UNCHANGED <<xm, free_sched_ports, sched_port>>

\* NetDev.close: returns at once when the port is down; otherwise sets
\* port_up = False and evaluates self.ports[0], an attribute NetDev does not
\* have: AttributeError, and nothing after line 1516 runs
NetDev_close ==
    /\ IF ~ndev.port_up
       THEN /\ Called("NetDev.close", "ndev0", "ok", 0)
            /\ UNCHANGED ndev
       ELSE /\ ndev' = [ndev EXCEPT !.port_up = FALSE]
            /\ Called("NetDev.close", "ndev0", "AttributeError", 0)
    /\ UNCHANGED <<resVars, objVars, hwVars, driver, pe, hw_pend, cq_log,
                   dp_last>>
    /\ DevCall("close")
    /\ UNCHANGED <<xm, free_sched_ports, sched_port>>

\* start_xmit from the top of its while loop, for submitter s: with space a
\* buffer is allocated, recorded in tx_info, the descriptor written and the
\* producer pointer published; without, clean_event.clear() and wait
xmit_loop(s) ==
    LET ring == txq[DpTxq]
        index == And_mask(ring.prod_ptr, ring.size_mask)
    IN IF ~xmit_has_space(ring)
       THEN /\ txq' = [txq EXCEPT ![DpTxq].clean_event = FALSE]
            /\ xm' = [xm EXCEPT ![s] = "wait"]
            /\ Called("start_xmit", DpTxq, "wait", 0)
            /\ UNCHANGED <<driver, hw_txq, hw_pend>>
       ELSE IF ring.info[index + 1] # None
       THEN /\ driver' = alloc_pkt(driver)
            /\ xm' = [xm EXCEPT ![s] = "out"]
            /\ Called("start_xmit", DpTxq, "AssertionError", 0)
            /\ UNCHANGED <<txq, hw_txq, hw_pend>>
       ELSE /\ driver' = alloc_pkt(driver)
            /\ txq' = [txq EXCEPT ![DpTxq].info[index + 1] = alloc_pkt_ret(driver),
                                  ![DpTxq].prod_ptr = @ + 1]
            /\ hw_txq' = [hw_txq EXCEPT ![ring.index].prod_ptr =
                              (ring.prod_ptr + 1) % 65536]
            /\ hw_pend' = hw_pend \cup {ring.prod_ptr}
            /\ xm' = [xm EXCEPT ![s] = "out"]
            /\ Called("start_xmit", DpTxq, "ok", 1)

\* a call of start_xmit by submitter s: if not self.port_up: return
start_xmit_call(s) ==
    /\ xm[s] = "out"
    /\ txq[DpTxq].prod_ptr < DevMaxXmit
    /\ IF ~ndev.port_up
       THEN /\ Called("start_xmit", DpTxq, "ok", 0)
            /\ UNCHANGED <<txq, driver, hw_txq, hw_pend, xm>>
       ELSE xmit_loop(s)
    /\ DevCall("step")
    /\ UNCHANGED <<resVars, eq, cq, rxq, hw_eq, hw_cq, hw_rxq,
                   ndev, pe, cq_log, dp_last, free_sched_ports, sched_port>>

\* submitter s resumes from clean_event.wait() and runs the loop again;
\* port_up is not read again
start_xmit_resume(s) ==
    /\ xm[s] = "woken"
    /\ xmit_loop(s)
    /\ DevCall("step")
    /\ UNCHANGED <<resVars, eq, cq, rxq, hw_eq, hw_cq, hw_rxq,
                   ndev, pe, cq_log, dp_last, free_sched_ports, sched_port>>

\* a step of the bring-up, the hardware or the interrupt path
DevStep(op) ==
    /\ DevCall("step")
    /\ UNCHANGED <<xm, free_sched_ports, sched_port>>

\* CQ numbers the hardware puts into events
EventSources == 0..(QueueCount - 1)

DevOpenEq == DpOpenEq /\ DevStep("eq_open")
DevOpen == NetDev_open
DevArmCq == DpArmCq /\ DevStep("open_step")
DevOpenTxq == DpOpenTxq /\ DevStep("open_step")
DevEnableTxq == DpEnableTxq /\ DevStep("open_step")
DevPortUp == DpPortUp /\ DevStep("open_step")
DevClose == NetDev_close
\* the device with one caller of start_xmit
DevStartXmit == start_xmit_call(1)
\* the device with any of the callers
XmStartXmit == \E s \in Submitters : start_xmit_call(s)
DevXmitResume == \E s \in Submitters : start_xmit_resume(s)
DevHwComplete == DpHwComplete /\ DevStep("hw")
\* the hardware writes an event: a completion event for any CQ number, or
\* an event of the other type
DevHwEvent ==
    /\ eq[DpEq].hw_regs
    /\ hw_eq[eq[DpEq].eqn].prod_ptr < DevMaxEvents
    /\ \/ \E src \in EventSources : HwEventFrom(0, src)
       \/ \E type \in EventTypes \ {0} : HwEventFrom(type, 0)
    /\ DevStep("hw")
\* the hardware writes an event for the CQ of the device or of the other type
XmHwEvent ==
    /\ eq[DpEq].hw_regs
    /\ hw_eq[eq[DpEq].eqn].prod_ptr < DevMaxEvents
    /\ DpHwEvent
    /\ DevStep("hw")
DevProcessEq == process_eq_run /\ DevStep("process_eq")

\* the TX handler resumed: a set clean_event wakes every waiter
DevHandlerResume ==
    /\ handler_resume
    /\ xm' = [s \in Submitters |->
                 IF xm[s] = "wait" /\ txq'[DpTxq].clean_event THEN "woken"
                 ELSE xm[s]]
    /\ DevCall("step")
    /\ UNCHANGED <<free_sched_ports, sched_port>>
DevProcessEqEnd == process_eq_end /\ DevStep("process_eq_end")

\* ========================================================================
\* Interrupt (mqnic.py 1962-1989): one notification queue and one worker
\* per IRQ line.  The lines are fed by the MSI callback (2055-2058), by
\* Driver._run_edge_interrupts (2139-2147), or, for a line made by
\* Interrupt.from_edge, by Interrupt._run_edge (1986-1989).
\*
\* Notifications are None objects in the code; the model numbers them per
\* line (irq_signalled counts them) so that order and loss can be stated.

VARIABLES irq_kind, irq_signal, irq_queue, irq_pc, irq_signalled,
          irq_invoked, irq_active

irqVars == <<irq_kind, irq_signal, irq_queue, irq_pc, irq_signalled,
             irq_invoked, irq_active>>

\* notifications signalled per line in a run of the model
MaxNotify == 3

IrqLines == {0, 1}

IrqKinds == {"msi", "edge", "from_edge"}

\* the values of the interrupt signal, one bit per line
IrqSignalValues == 0..3

IrqBit(val, i) == (val \div (2 ^ i)) % 2 = 1

\* cocotb Queue: put_nowait appends, get takes the oldest item
Queue_put_nowait(q, item) == Append(q, item)

Queue_get(q) == [item |-> Head(q), queue |-> Tail(q)]

\* before any Interrupt exists
IrqIdle ==
    /\ irq_kind = "msi"
    /\ irq_signal = 0
    /\ irq_queue = [i \in IrqLines |-> <<>>]
    /\ irq_pc = [i \in IrqLines |-> "get"]
    /\ irq_signalled = [i \in IrqLines |-> 0]
    /\ irq_invoked = [i \in IrqLines |-> <<>>]
    /\ irq_active = [i \in IrqLines |-> 0]

\* Interrupt.__init__ for every line: empty queue, worker started and
\* waiting in queue.get(); the lines are all of one kind
IrqInit ==
    /\ irq_kind \in IrqKinds
    /\ irq_signal = 0
    /\ irq_queue = [i \in IrqLines |-> <<>>]
    /\ irq_pc = [i \in IrqLines |-> "get"]
    /\ irq_signalled = [i \in IrqLines |-> 0]
    /\ irq_invoked = [i \in IrqLines |-> <<>>]
    /\ irq_active = [i \in IrqLines |-> 0]

\* Interrupt.interrupt() run to its end on every line of S
Interrupt_interrupt(S) ==
    /\ irq_signalled' = [i \in IrqLines |->
                            IF i \in S THEN irq_signalled[i] + 1
                            ELSE irq_signalled[i]]
    /\ irq_queue' = [i \in IrqLines |->
                        IF i \in S
                        THEN Queue_put_nowait(irq_queue[i], irq_signalled[i] + 1)
                        ELSE irq_queue[i]]

\* the MSI callback registered with request_irq is irq.interrupt
IrqMsi(i) ==
    /\ irq_kind = "msi"
    /\ irq_signalled[i] < MaxNotify
    /\ Interrupt_interrupt({i})
    /\ UNCHANGED <<irq_kind, irq_signal, irq_pc, irq_invoked, irq_active>>

\* Driver._run_edge_interrupts: on any change of the signal, last_val being
\* 0 for ever, every line that is high in the new value is notified
run_edge_interrupts(val) ==
    LET last_val == 0
        edge == {i \in IrqLines : IrqBit(val, i) /\ ~IrqBit(last_val, i)}
    IN /\ irq_kind = "edge"
       /\ val # irq_signal
       /\ \A i \in edge : irq_signalled[i] < MaxNotify
       /\ irq_signal' = val
       /\ Interrupt_interrupt(edge)
       /\ UNCHANGED <<irq_kind, irq_pc, irq_invoked, irq_active>>

IrqEdge == \E val \in IrqSignalValues : run_edge_interrupts(val)

\* Interrupt._run_edge: on a rising edge of the line's signal it calls
\* self.interrupt() without await: the coroutine object is made and
\* dropped, its body (put_nowait) never runs
run_edge(i) ==
    /\ irq_kind = "from_edge"
    /\ ~IrqBit(irq_signal, i)
    /\ irq_signalled[i] < MaxNotify
    /\ irq_signal' = irq_signal + 2 ^ i
    /\ irq_signalled' = [irq_signalled EXCEPT ![i] = @ + 1]
    /\ UNCHANGED <<irq_kind, irq_queue, irq_pc, irq_invoked, irq_active>>

IrqRisingEdge == \E i \in IrqLines : run_edge(i)

\* the signal of a from_edge line falls
IrqFallingEdge ==
    \E i \in IrqLines :
        /\ irq_kind = "from_edge"
        /\ IrqBit(irq_signal, i)
        /\ irq_signal' = irq_signal - 2 ^ i
        /\ UNCHANGED <<irq_kind, irq_queue, irq_pc, irq_signalled,
                       irq_invoked, irq_active>>

\* Interrupt._run: queue.get() returns the oldest notification and the
\* worker calls the handler (every line of the driver has one)
Interrupt_run(i) ==
    /\ irq_pc[i] = "get"
    /\ irq_queue[i] # <<>>
    /\ LET got == Queue_get(irq_queue[i])
       IN /\ irq_queue' = [irq_queue EXCEPT ![i] = got.queue]
          /\ irq_invoked' = [irq_invoked EXCEPT ![i] = Append(@, got.item)]
    /\ irq_pc' = [irq_pc EXCEPT ![i] = "handler"]
    /\ irq_active' = [irq_active EXCEPT ![i] = @ + 1]
    /\ UNCHANGED <<irq_kind, irq_signal, irq_signalled>>

\* the handler returns and the worker is back at queue.get()
Interrupt_handler_return(i) ==
    /\ irq_pc[i] = "handler"
    /\ irq_pc' = [irq_pc EXCEPT ![i] = "get"]
    /\ irq_active' = [irq_active EXCEPT ![i] = @ - 1]
    /\ UNCHANGED <<irq_kind, irq_signal, irq_queue, irq_signalled, irq_invoked>>

\* ========================================================================
\* The receive queue of the NetDev: process_rx_cq appends the packets and
\* sets pkt_rx_sync (mqnic.py 1054-1069); recv() and recv_nowait() hand
\* them out (1625-1634).
\*
\* pkt_rx_sync: the Event's flag
\* rv: where each receiver is: "out", "wait" (suspended in
\*   pkt_rx_sync.wait()), "woken" (made ready by set(), not yet run)
\* recv_log: the packets recv()/recv_nowait() returned, in order, and to
\*   whom (a return of None shows in last_call only)
\* rx_done: the completions the hardware wrote, with the buffer the
\*   descriptor named when the hardware filled it

VARIABLES pkt_rx_sync, rv, recv_log, rx_done

rvVars == <<pkt_rx_sync, rv, recv_log, rx_done>>

\* packets the hardware delivers in a run of the model
MaxRecv == 2

Receivers == {1, 2}

\* lengths the hardware reports
RxLengths == {1, 2}

RvIdle ==
    /\ pkt_rx_sync = FALSE
    /\ rv = [r \in Receivers |-> "out"]
    /\ recv_log = <<>>
    /\ rx_done = <<>>

\* recv_nowait(): whether a packet is returned, the packet (None when the
\* queue is empty) and the queue afterwards
recv_nowait(queue) ==
    IF queue # <<>>
    THEN [some |-> TRUE, skb |-> Head(queue), queue |-> Tail(queue)]
    ELSE [some |-> FALSE, skb |-> None, queue |-> queue]

\* recv_nowait() by receiver r, as a call of its own or at the end of recv()
Recv_return(r) ==
    LET got == recv_nowait(ndev.pkt_rx_queue)
    IN /\ ndev' = [ndev EXCEPT !.pkt_rx_queue = got.queue]
       /\ recv_log' = IF got.some
                      THEN Append(recv_log, [who |-> r, skb |-> got.skb])
                      ELSE recv_log
       /\ rv' = [rv EXCEPT ![r] = "out"]
       /\ Called("recv", r, IF got.some THEN "ok" ELSE "None", 0)

\* recv(): with an empty queue it clears pkt_rx_sync and waits; otherwise it
\* returns recv_nowait() at once
recv_call(r) ==
    /\ rv[r] = "out"
    /\ IF ndev.pkt_rx_queue = <<>>
       THEN /\ pkt_rx_sync' = FALSE
            /\ rv' = [rv EXCEPT ![r] = "wait"]
            /\ Called("recv", r, "wait", 0)
            /\ UNCHANGED <<ndev, recv_log>>
       ELSE /\ Recv_return(r)
            /\ UNCHANGED pkt_rx_sync
    /\ UNCHANGED <<resVars, objVars, hwVars, driver, pe, hw_pend,
                   cq_log, dp_last, rx_done>>

\* recv() resumed after pkt_rx_sync.wait(): return self.recv_nowait(),
\* without looking at the queue again
recv_resume(r) ==
    /\ rv[r] = "woken"
    /\ Recv_return(r)
    /\ UNCHANGED <<resVars, objVars, hwVars, driver, pe, hw_pend,
                   cq_log, dp_last, rx_done, pkt_rx_sync>>

\* recv_nowait() called directly
recv_nowait_call(r) ==
    /\ rv[r] = "out"
    /\ Recv_return(r)
    /\ UNCHANGED <<resVars, objVars, hwVars, driver, pe, hw_pend,
                   cq_log, dp_last, rx_done, pkt_rx_sync>>

\* a packet of some length arrives: the hardware fills the buffer of one of
\* the two oldest descriptors it holds and writes the completion
RvHwRxComplete ==
    /\ rxq[DpRxq].hw_regs
    /\ hw_rxq[rxq[DpRxq].index].enable
    /\ Len(cq_log.produced) < MaxRecv
    /\ \E d \in hw_pend : \E len \in RxLengths :
          /\ \A o \in hw_pend : d - o < 2
          /\ HwCompleteLen(d, len)
          /\ rx_done' = Append(rx_done,
                 [index |-> d % 65536, len |-> len,
                  buf |-> rxq[DpRxq].info[And_mask(d, rxq[DpRxq].size_mask) + 1]])
    /\ UNCHANGED <<pkt_rx_sync, rv, recv_log>>

\* process_eq with the RX handler: every append is followed by
\* pkt_rx_sync.set(), which makes every waiting receiver ready
RvProcessEq ==
    /\ process_eq_run
    /\ IF Len(ndev'.pkt_rx_queue) > Len(ndev.pkt_rx_queue)
       THEN /\ pkt_rx_sync' = TRUE
            /\ rv' = [r \in Receivers |-> IF rv[r] = "wait" THEN "woken" ELSE rv[r]]
       ELSE UNCHANGED <<pkt_rx_sync, rv>>
    /\ UNCHANGED <<recv_log, rx_done>>

\* the hardware writes a completion event for the CQ, at most one more than
\* it wrote completions
RvHwEvent ==
    /\ eq[DpEq].hw_regs
    /\ hw_eq[eq[DpEq].eqn].prod_ptr <= Len(cq_log.produced)
    /\ HwEvent(0)
    /\ UNCHANGED rvVars

RvStep == UNCHANGED rvVars

RvRecv == \E r \in Receivers : recv_call(r)

RvRecvResume == \E r \in Receivers : recv_resume(r)

RvRecvNowait == \E r \in Receivers : recv_nowait_call(r)

\* ========================================================================
\* Pools smaller than the number of queue objects: the count registers of
\* the hardware give ExhaustCount slots to the CQ, TXQ and RXQ pools, and
\* the driver holds two objects of each kind (create_cq(), create_txq(),
\* create_rxq() make objects without taking a slot; open() takes it).

ExhaustCount == 1

ExhaustInit ==
    /\ eq_res = Resource_init(MQNIC_MAX_EQ)
    /\ cq_res = Resource_init(ExhaustCount)
    /\ txq_res = Resource_init(ExhaustCount)
    /\ rxq_res = Resource_init(ExhaustCount)
    /\ eq = [e \in EqObjs |-> Eq_new]
    /\ cq = [c \in CqObjs |-> Cq_new]
    /\ txq = [t \in TxqObjs |-> Ring_new]
    /\ rxq = [r \in RxqObjs |-> Ring_new]
    /\ hw_eq = [n \in 0..(MQNIC_MAX_EQ - 1) |-> HwEvq_reset]
    /\ hw_cq = [n \in 0..(QueueCount - 1) |-> HwEvq_reset]
    /\ hw_txq = [n \in 0..(QueueCount - 1) |-> HwRing_reset]
    /\ hw_rxq = [n \in 0..(QueueCount - 1) |-> HwRing_reset]
    /\ last_call = "ok"
    /\ reg_access = 0

XhEqOpen == \E e \in EqObjs : Eq_open(e, 0, QueueSize) /\ TdCall("open", e)
XhEqClose == \E e \in EqObjs : Eq_close(e) /\ TdCall("close", e)
XhCqOpen ==
    \E c \in CqObjs, e \in EqObjs : Cq_open(c, e, QueueSize) /\ TdCall("open", c)
XhCqClose == \E c \in CqObjs : Cq_close(c) /\ TdCall("close", c)
XhTxqOpen ==
    /\ q_kind = "tx"
    /\ \E t \in TxqObjs, c \in CqObjs :
          Txq_open(t, "ndev0", c, QueueSize, DescBlockSize) /\ TdCall("open", t)
XhTxqClose == q_kind = "tx" /\ \E t \in TxqObjs : Txq_close(t) /\ TdCall("close", t)
XhRxqOpen ==
    /\ q_kind = "rx"
    /\ \E r \in RxqObjs, c \in CqObjs :
          Rxq_open(r, "ndev0", c, QueueSize, DescBlockSize) /\ TdCall("open", r)
XhRxqClose == q_kind = "rx" /\ \E r \in RxqObjs : Rxq_close(r) /\ TdCall("close", r)

\* ========================================================================
\* RegBlockList.find (mqnic.py 422-429)
\* ========================================================================

\* longest block list searched
FindMaxLen == 3

\* block types and versions in the list, and the index arguments
FindTypes == {1, 2}
FindVersions == 0..2
FindIndexes == 0..FindMaxLen

\* the default of the version parameter: version=None
NoVersion == -1

\* the return value None of find, among positions 1..Len(blocks)
NotFound == 0

\* Python's "not version": true of None and of 0
Not_version(version) == version = NoVersion \/ version = 0

\* (not version or block.version == version)
Rb_version_ok(block, version) ==
    Not_version(version) \/ block.version = version

\* the for loop of find from position i on; the block returned is named by
\* its position in self.blocks
RECURSIVE find_from(_, _, _, _, _)
find_from(blocks, i, rb_type, version, index) ==
    IF i > Len(blocks) THEN NotFound
    ELSE IF blocks[i].type = rb_type /\ Rb_version_ok(blocks[i], version)
    THEN IF index <= 0 THEN i
         ELSE find_from(blocks, i + 1, rb_type, version, index - 1)
    ELSE find_from(blocks, i + 1, rb_type, version, index)

\* RegBlockList.find(rb_type, version, index)
find(blocks, rb_type, version, index) ==
    find_from(blocks, 1, rb_type, version, index)

\* block lists as enumeration leaves them: blocks 16 bytes apart, with any
\* type and version dwords
FindLists ==
    UNION {[1..n -> [type : FindTypes, version : FindVersions]] : n \in 0..FindMaxLen}

FindInit ==
    /\ rb_mem = [o \in BlockOffsets |-> [type |-> 0, version |-> 0, next |-> 0]]
    /\ rb_offset = 0
    /\ \E l \in FindLists :
          rb_blocks = [k \in 1..Len(l) |->
                          [offset |-> 16 * (k - 1), type |-> l[k].type,
                           version |-> l[k].version]]
    /\ rb_pc = "done"
    /\ rb_find = [called |-> FALSE]

\* a call of find on the list
find_call(rb_type, version, index) ==
    /\ rb_pc = "done"
    /\ rb_find' = [called |-> TRUE, type |-> rb_type, version |-> version,
                   index |-> index,
                   ret |-> find(rb_blocks, rb_type, version, index)]
    /\ UNCHANGED <<rb_mem, rb_offset, rb_blocks, rb_pc>>

FindCall ==
    \E rb_type \in FindTypes, version \in FindVersions \cup {NoVersion},
       index \in FindIndexes : find_call(rb_type, version, index)

\* ========================================================================
\* Txq.read_cons_ptr and Txq.free_buf (mqnic.py 795-811), and the calls that
\* run beside an open ring: its own, those on another ring and CQ, the EQ's
\* and the device's
\* ========================================================================

\* start_xmit is called until the ring has been filled once to its limit
\* of half its slots, and the hardware writes as many events
FrMaxXmit == TxRingSize \div 2

\* the second CQ and ring of the interface
OtherCq == "c1"
OtherTxq == "t1"

\* the while loop of free_buf: free_desc of the slot at cons_ptr, then
\* cons_ptr += 1, until the ring is empty; free_pkt's assertion ends it
RECURSIVE Ring_free_buf(_, _)
Ring_free_buf(ring, drv) ==
    IF ring.prod_ptr = ring.cons_ptr
    THEN [ring |-> ring, drv |-> drv, ok |-> TRUE]
    ELSE LET index == And_mask(ring.cons_ptr, ring.size_mask)
             pkt == ring.info[index + 1]
         IN IF ~free_pkt_ok(drv, pkt)
            THEN [ring |-> ring, drv |-> drv, ok |-> FALSE]
            ELSE Ring_free_buf([Ring_free_desc(ring, index) EXCEPT !.cons_ptr = @ + 1],
                               free_pkt(drv, pkt))

\* Txq.free_buf
Txq_free_buf(t) ==
    LET r == Ring_free_buf(txq[t], driver)
    IN /\ txq' = [txq EXCEPT ![t] = r.ring]
       /\ driver' = r.drv
       /\ Called("Txq.free_buf", t, IF r.ok THEN "ok" ELSE "AssertionError", 0)
       /\ UNCHANGED <<resVars, eq, cq, rxq, hwVars>>

MQNIC_QUEUE_PTR_MASK == 65535

\* the low 16 bits replaced by the hardware's, the rest kept
Ptr_splice(c, val) == (c - (c % 65536)) + val.hi

\* self.cons_ptr += ((val >> 16) - self.cons_ptr) & MQNIC_QUEUE_PTR_MASK
\* a register dword is kept as its two 16-bit halves, val >> 16 is val.hi
Ptr_reconcile(c, val) ==
    c + ((val.hi - c) % (MQNIC_QUEUE_PTR_MASK + 1))

\* the dword at MQNIC_QUEUE_PTR_REG: consumer pointer above producer pointer
Ptr_reg(hw, prod) == [hi |-> hw % 65536, lo |-> prod]

\* Txq.read_cons_ptr, the hardware's consumer pointer field reading val:
\* self.cons_ptr += (val - self.cons_ptr) & MQNIC_QUEUE_PTR_MASK
Txq_read_cons_ptr(t, val) ==
    /\ IF ~txq[t].hw_regs
       THEN /\ Called("Txq.read_cons_ptr", t, "AttributeError", 0)
            /\ UNCHANGED txq
       ELSE /\ txq' = [txq EXCEPT ![t].cons_ptr = Ptr_reconcile(@, Ptr_reg(val, 0))]
            /\ Called("Txq.read_cons_ptr", t, "ok", 1)
    /\ UNCHANGED <<resVars, eq, cq, rxq, hwVars, driver>>

FrOpenEq == DpOpenEq /\ TdCall("open", DpEq)
FrOpenCq == DpOpenCq /\ TdCall("open", DpCq)
FrArmCq == DpArmCq /\ TdCall("arm", DpCq)
FrOpenTxq == DpOpenTxq /\ TdCall("open", DpTxq)
FrEnableTxq == DpEnableTxq /\ TdCall("enable", DpTxq)
FrPortUp == DpPortUp /\ TdCall("open", "ndev0")
FrStartXmit ==
    /\ txq[DpTxq].prod_ptr < FrMaxXmit
    /\ DpStartXmit /\ TdCall("start_xmit", DpTxq)
FrHwComplete == DpHwComplete /\ TdCall("hw", NoObj)
\* the hardware writes a completion event for either CQ number, or an
\* event of the other type
FrHwEvent ==
    /\ eq[DpEq].hw_regs
    /\ hw_eq[eq[DpEq].eqn].prod_ptr < FrMaxXmit
    /\ \/ \E src \in EventSources : HwEventFrom(0, src)
       \/ \E type \in EventTypes \ {0} : HwEventFrom(type, 0)
    /\ TdCall("hw", NoObj)
FrProcessEq == process_eq_run /\ TdCall("process_eq", DpEq)
FrHandlerResume == handler_resume /\ TdCall("process_eq", DpEq)
FrProcessEqEnd == process_eq_end /\ TdCall("process_eq_end", DpEq)
\* the second CQ and ring are opened on the same EQ
FrOtherCqOpen ==
    /\ ndev.open_pc = "enabled"
    /\ Cq_open(OtherCq, DpEq, CqSize) /\ TdCall("open", OtherCq)
    /\ UNCHANGED dpVars
FrOtherTxqOpen ==
    /\ cq[OtherCq].hw_regs /\ ndev.open_pc = "enabled"
    /\ Txq_open(OtherTxq, "ndev0", OtherCq, TxRingSize, DescBlockSize)
    /\ TdCall("open", OtherTxq) /\ UNCHANGED dpVars
\* the ring's own drain, and its pointer read with any value the
\* hardware's consumer pointer can have
FrFreeBuf ==
    \E t \in {DpTxq} :
        /\ txq[t].hw_regs /\ txq[t].prod_ptr # txq[t].cons_ptr
        /\ Txq_free_buf(t) /\ TdCall("free_buf", t) /\ UNCHANGED dpVars
FrReadConsPtr ==
    \E t \in {DpTxq} : \E val \in (txq[t].cons_ptr + 1)..txq[t].prod_ptr :
        /\ txq[t].hw_regs
        /\ Txq_read_cons_ptr(t, val) /\ TdCall("read_cons_ptr", t)
        /\ UNCHANGED dpVars
\* device teardown
FrDevClose == NetDev_close /\ TdCall("close", "ndev0")

\* ========================================================================
\* NetDev.open statement by statement (mqnic.py 1448-1508), with one RX and
\* one TX queue, on an interface whose EQ Interface.init has opened
\* ========================================================================

\* bu: the coroutine of NetDev.open and the registers it writes that no
\* other part of the model holds.  pc: the statement it is suspended before;
\* port_tx, port_rx: the port's TX_CTRL and RX_CTRL registers; indir: the
\* indirection table is written; sched_q: the TX queues enabled in the
\* scheduler; ch_dest, ch_pkt_budget, ch_pkt_limit: the registers of flow
\* control channel 0 (None: not written); ch_en: its enable bit; barrier:
\* the final read has returned
VARIABLES bu

buVars == <<bu>>

\* the queues NetDev.open creates, in creation order
OpRxCq == "c0"
OpRxq == "r0"
OpTxCq == "c1"
OpTxq == "t0"

\* the SchedulerPort of the device is the scheduler's first view
OpView == 1

MQNIC_PORT_TX_CTRL_EN == 1
MQNIC_PORT_RX_CTRL_EN == 1

\* set_ch_pkt_limit(0, 0xFFFF)
OpPktLimit == 65535

BuIdle ==
    bu = [pc |-> "closed", port_tx |-> 0, port_rx |-> 0, indir |-> FALSE,
          sched_q |-> {}, ch_dest |-> None, ch_pkt_budget |-> None,
          ch_pkt_limit |-> None, ch_en |-> FALSE, barrier |-> FALSE]

\* an open() that enables port RX before it configures the scheduler
OpenOrder_rx_early ==
    <<"rx_cq_open", "rx_cq_arm", "rx_open", "tx_cq_open", "tx_cq_arm",
      "tx_open", "indir", "rx_enable", "tx_enable", "port_tx", "port_rx",
      "sched_queue", "ch_dest", "ch_pkt_budget", "ch_data_budget",
      "ch_pkt_limit", "ch_data_limit", "ch_enable", "sched_enable",
      "sched_wait", "barrier", "port_up", "up">>

\* the statements of open() after alloc_sched_port(), in program order
OpenOrder ==
    <<"rx_cq_open", "rx_cq_arm", "rx_open", "tx_cq_open", "tx_cq_arm",
      "tx_open", "indir", "rx_enable", "tx_enable", "port_tx",
      "sched_queue", "ch_dest", "ch_pkt_budget", "ch_data_budget",
      "ch_pkt_limit", "ch_data_limit", "ch_enable", "sched_enable",
      "sched_wait", "port_rx", "barrier", "port_up", "up">>

\* the statement after pc
open_next(pc) ==
    LET i == CHOOSE j \in 1..Len(OpenOrder) : OpenOrder[j] = pc
    IN OpenOrder[i + 1]

\* the coroutine moves on, or ends with the exception of the call it made
Bu_after(result) ==
    bu' = [bu EXCEPT !.pc = IF result = "ok" THEN open_next(bu.pc) ELSE "failed"]

\* Interface.init has opened the EQ before any NetDev is opened
OpEqOpen ==
    /\ bu.pc = "closed" /\ ~eq[DpEq].hw_regs
    /\ Eq_open(DpEq, 0, EqSize)
    /\ UNCHANGED <<dpVars, devVars, buVars, fcVars, schVars>>

\* open() entered: if self.port_up: return; alloc_sched_port()
NetDev_open_call ==
    /\ bu.pc \in {"closed", "up"}
    /\ eq[DpEq].hw_regs
    /\ IF ndev.port_up
       THEN /\ Called("NetDev.open", "ndev0", "ok", 0)
            /\ UNCHANGED <<bu, free_sched_ports, sched_port>>
       ELSE /\ free_sched_ports # <<>>
            /\ sched_port' = Head(free_sched_ports)
            /\ free_sched_ports' = Tail(free_sched_ports)
            /\ bu' = [bu EXCEPT !.pc = OpenOrder[1]]
            /\ UNCHANGED callVars
    /\ DevCall("open")
    /\ UNCHANGED <<resVars, objVars, hwVars, driver, dpVars, xm, fcVars, schVars>>

\* the statements that work on a queue: cq.open, cq.arm, rxq.open,
\* txq.open, q.enable
NetDev_open_queue ==
    /\ \/ bu.pc = "rx_cq_open" /\ Cq_open(OpRxCq, DpEq, CqSize)
       \/ bu.pc = "rx_cq_arm" /\ Cq_arm(OpRxCq)
       \/ bu.pc = "rx_open"
             /\ Rxq_open(OpRxq, "ndev0", OpRxCq, RxRingSize, DescBlockSize)
       \/ bu.pc = "tx_cq_open" /\ Cq_open(OpTxCq, DpEq, CqSize)
       \/ bu.pc = "tx_cq_arm" /\ Cq_arm(OpTxCq)
       \/ bu.pc = "tx_open"
             /\ Txq_open(OpTxq, "ndev0", OpTxCq, TxRingSize, DescBlockSize)
       \/ bu.pc = "rx_enable" /\ Rxq_enable(OpRxq)
       \/ bu.pc = "tx_enable" /\ Txq_enable(OpTxq)
    /\ Bu_after(last_call')
    /\ UNCHANGED <<dpVars, devVars, fcVars, schVars>>

\* the statements that write one register of the port, the indirection
\* table or the scheduler, and the final read
NetDev_open_reg ==
    /\ \/ bu.pc = "indir" /\ bu' = [bu EXCEPT !.indir = TRUE, !.pc = open_next(bu.pc)]
       \/ bu.pc = "port_tx"
             /\ bu' = [bu EXCEPT !.port_tx = MQNIC_PORT_TX_CTRL_EN,
                                 !.pc = open_next(bu.pc)]
       \/ bu.pc = "sched_queue"
             /\ bu' = [bu EXCEPT !.sched_q = @ \cup {txq[OpTxq].index},
                                 !.pc = open_next(bu.pc)]
       \/ bu.pc = "ch_dest" /\ bu' = [bu EXCEPT !.ch_dest = 0, !.pc = open_next(bu.pc)]
       \/ bu.pc = "ch_pkt_budget"
             /\ bu' = [bu EXCEPT !.ch_pkt_budget = 1, !.pc = open_next(bu.pc)]
       \/ bu.pc = "ch_pkt_limit"
             /\ bu' = [bu EXCEPT !.ch_pkt_limit = OpPktLimit, !.pc = open_next(bu.pc)]
       \/ bu.pc = "ch_enable" /\ bu' = [bu EXCEPT !.ch_en = TRUE, !.pc = open_next(bu.pc)]
       \/ bu.pc = "sched_wait" /\ sch_view[OpView] = "on"
             /\ bu' = [bu EXCEPT !.pc = open_next(bu.pc)]
       \/ bu.pc = "port_rx"
             /\ bu' = [bu EXCEPT !.port_rx = MQNIC_PORT_RX_CTRL_EN,
                                 !.pc = open_next(bu.pc)]
       \/ bu.pc = "barrier" /\ bu' = [bu EXCEPT !.barrier = TRUE, !.pc = open_next(bu.pc)]
    /\ UNCHANGED <<resVars, objVars, hwVars, driver, callVars, dpVars, devVars,
                   fcVars, schVars>>

\* set_ch_data_budget(0, max_tx_mtu) and set_ch_data_limit(0, tx_fifo_depth)
NetDev_open_fc ==
    /\ \/ /\ bu.pc = "ch_data_budget"
          /\ \E val \in BudgetValues(sch.fc_scale) : set_ch_data_budget(0, 0, val)
       \/ /\ bu.pc = "ch_data_limit"
          /\ \E val \in LimitValues(sch.fc_scale) : set_ch_data_limit(0, 0, val)
    /\ bu' = [bu EXCEPT !.pc = IF fc_last'.exc = "none" THEN open_next(bu.pc)
                                ELSE "failed"]
    /\ UNCHANGED <<resVars, objVars, hwVars, driver, callVars, dpVars, devVars,
                   schVars>>

\* await self.sched_port.enable()
NetDev_open_sched ==
    /\ bu.pc = "sched_enable"
    /\ sched_enable_call(OpView)
    /\ bu' = [bu EXCEPT !.pc = open_next(bu.pc)]
    /\ UNCHANGED <<resVars, objVars, hwVars, driver, callVars, dpVars, devVars,
                   fcVars>>

\* the scheduler's register write is performed and enable() resumes
OpSchedBusWrite ==
    /\ sched_bus_write
    /\ UNCHANGED <<resVars, objVars, hwVars, driver, callVars, dpVars, devVars,
                   fcVars, buVars>>
OpSchedResume ==
    /\ sched_enable_resume(OpView)
    /\ UNCHANGED <<resVars, objVars, hwVars, driver, callVars, dpVars, devVars,
                   fcVars, buVars>>

\* self.port_up = True
NetDev_open_up ==
    /\ bu.pc = "port_up"
    /\ ndev' = [ndev EXCEPT !.port_up = TRUE, !.open_pc = "up"]
    /\ bu' = [bu EXCEPT !.pc = open_next(bu.pc)]
    /\ UNCHANGED <<resVars, objVars, hwVars, driver, callVars, pe, hw_pend,
                   cq_log, dp_last, devVars, fcVars, schVars>>

\* start_xmit called at any point of the bring-up and after it
OpStartXmit ==
    /\ start_xmit_call(1)
    /\ UNCHANGED <<fcVars, schVars, buVars>>

\* ========================================================================
\* read_cons_ptr as a function (Txq 795-797, Rxq 982-984): the software
\* counter against a hardware counter that wraps at 16 bits
\* ========================================================================

\* rc: c is the ring's cons_ptr, a Python integer without a width; hw is
\* the number of entries the hardware has consumed since the ring was
\* opened, of which the register shows the low 16 bits; prev and val are
\* the counter before the last read_cons_ptr and the dword that call read;
\* lag is how far the hardware was ahead of the counter at that call; steps
\* counts the hardware's advances
VARIABLES rc

\* the hardware advances this many times
PtrSteps == 4
\* the numbers of entries the hardware consumes between two reads
PtrAdvances == {1, 5, 32768, 65535, 65536}
\* the producer pointers the low half of the register shows
PtrProds == {0, 65535}

RcIdle ==
    rc = [c |-> 0, hw |-> 0, prev |-> 0, val |-> Ptr_reg(0, 0), lag |-> 0,
          reads |-> 0, steps |-> 0]

\* the hardware consumes n entries
PtrHwAdvance ==
    \E n \in PtrAdvances :
        /\ rc.steps < PtrSteps
        /\ rc' = [rc EXCEPT !.hw = @ + n, !.steps = @ + 1]

\* read_cons_ptr
PtrRead ==
    \E prod \in PtrProds :
        LET val == Ptr_reg(rc.hw, prod)
        IN rc' = [rc EXCEPT !.c = Ptr_reconcile(rc.c, val), !.prev = rc.c,
                            !.val = val, !.lag = rc.hw - rc.c,
                            !.reads = IF @ < 2 THEN @ + 1 ELSE @]

\* ========================================================================
\* start_xmit against completion processing with no limit on the number of
\* calls (mqnic.py 1557-1614, 813-863).  The pointers are Python integers
\* that grow for ever; the code reads them only in differences and under
\* size_mask, so after a handler run that took cons_ptr past the ring size
\* the model subtracts the ring size from every pointer.  The path from the
\* hardware's completion to the handler (CQ entry, event, interrupt,
\* process_eq) is the list lv.cpl: the descriptors the hardware completed
\* and the handler has not yet seen.
\* ========================================================================

\* lv.cpl: completed descriptors waiting for the handler; lv.pc: the
\* handler's position ("idle", or "handler_wait" while it is suspended in
\* cq.write_cons_ptr()); lv.budget: the calls of start_xmit still to come,
\* LvUnbounded when there is no end to them
VARIABLES lv

LvUnbounded == None

\* the calls of start_xmit in a behaviour with an end to them
LvCalls == 4

LvIdle == lv = [cpl |-> <<>>, pc |-> "idle", budget |-> 0]

LvInit == \E b \in {LvUnbounded, LvCalls} : lv = [cpl |-> <<>>, pc |-> "idle", budget |-> b]

\* a handler that forgets the completions it was called for
Tx_cpl_loop_none(ring, drv, cpls) == [ring |-> ring, drv |-> drv, ok |-> TRUE]

\* the CQ loop of process_tx_cq over the completions cpls: free_pkt of the
\* slot's packet and free_desc of the slot, for each in turn
RECURSIVE Tx_cpl_loop(_, _, _)
Tx_cpl_loop(ring, drv, cpls) ==
    IF cpls = <<>> THEN [ring |-> ring, drv |-> drv, ok |-> TRUE]
    ELSE LET ring_index == And_mask(Head(cpls) % 65536, ring.size_mask)
             pkt == ring.info[ring_index + 1]
         IN IF ~free_pkt_ok(drv, pkt)
            THEN [ring |-> ring, drv |-> drv, ok |-> FALSE]
            ELSE Tx_cpl_loop(Ring_free_desc(ring, ring_index),
                             free_pkt(drv, pkt), Tail(cpls))

\* what is subtracted from every pointer after a ring walk
Lv_shift(ring) == IF ring.cons_ptr >= ring.size THEN ring.size ELSE 0

\* a call of start_xmit with the port up
LvStartXmit(s) ==
    /\ xm[s] = "out"
    /\ ndev.port_up
    /\ lv.budget # 0
    /\ xmit_loop(s)
    /\ lv' = [lv EXCEPT !.budget = IF @ = LvUnbounded THEN @ ELSE @ - 1]
    /\ DevCall("step")
    /\ UNCHANGED <<resVars, eq, cq, rxq, hw_eq, hw_cq, hw_rxq,
                   ndev, pe, cq_log, dp_last, free_sched_ports, sched_port>>

\* the call resumes from clean_event.wait()
LvResume(s) ==
    /\ start_xmit_resume(s)
    /\ UNCHANGED lv

\* the hardware completes a posted descriptor, in any order
LvHwComplete ==
    /\ \E d \in hw_pend :
          /\ hw_pend' = hw_pend \ {d}
          /\ lv' = [lv EXCEPT !.cpl = Append(@, d)]
    /\ UNCHANGED <<resVars, objVars, hwVars, driver, callVars, ndev, pe,
                   cq_log, dp_last, devVars>>

\* process_tx_cq called for the completions written so far, up to its
\* suspension in cq.write_cons_ptr()
LvHandlerRun ==
    /\ lv.pc = "idle" /\ lv.cpl # <<>>
    /\ ndev.port_up
    /\ LET d == Tx_cpl_loop(txq[DpTxq], driver, lv.cpl)
       IN /\ txq' = [txq EXCEPT ![DpTxq] = d.ring]
          /\ driver' = d.drv
          /\ lv' = [lv EXCEPT !.cpl = <<>>,
                              !.pc = IF d.ok THEN "handler_wait" ELSE "dead"]
    /\ UNCHANGED <<resVars, eq, cq, rxq, hwVars, callVars, dpVars, devVars>>

\* process_tx_cq resumed: the ring walk and clean_event.set(), which makes
\* every waiting call ready
LvHandlerResume ==
    /\ lv.pc = "handler_wait"
    /\ LET ring == txq[DpTxq]
           walked == [ring EXCEPT !.cons_ptr = Ring_walk(ring, ring.cons_ptr)]
           k == Lv_shift(walked)
           done == Clean_event_set(ring, walked)
       IN /\ txq' = [txq EXCEPT ![DpTxq] =
                        [done EXCEPT !.cons_ptr = @ - k, !.prod_ptr = @ - k]]
          /\ hw_txq' = [hw_txq EXCEPT ![ring.index].prod_ptr =
                            (walked.prod_ptr - k) % 65536]
          /\ hw_pend' = {d - k : d \in hw_pend}
          /\ lv' = [lv EXCEPT !.pc = "idle",
                              !.cpl = [i \in 1..Len(@) |-> @[i] - k]]
          /\ xm' = [s \in Submitters |->
                       IF xm[s] = "wait" /\ done.clean_event THEN "woken"
                       ELSE xm[s]]
    /\ DevCall("step")
    /\ UNCHANGED <<resVars, eq, cq, rxq, hw_eq, hw_cq, hw_rxq, driver, callVars,
                   ndev, pe, cq_log, dp_last, free_sched_ports, sched_port>>

\* ========================================================================
\* The TX data path with the ring and its CQ closed while events are
\* queued (Txq.close 753-771, Cq.close 651-667, process_eq 558-583)
\* ========================================================================

\* the hardware writes a completion event for the armed CQ of a ring that
\* is open and enabled, after it has written a completion into the CQ
UbHwEvent ==
    /\ txq[DpTxq].hw_regs /\ hw_txq[txq[DpTxq].index].enable
    /\ cq[DpCq].hw_regs /\ hw_cq[cq[DpCq].cqn].arm
    /\ cq_log.produced # <<>>
    /\ HwEvent(0)
    /\ TdCall("hw", NoObj)

\* start_xmit on the open ring
UbStartXmit == txq[DpTxq].hw_regs /\ FrStartXmit

\* await q.close() on the ring, at any point after it was enabled at which
\* no handler is suspended on it
UbTxqClose ==
    /\ ndev.open_pc \in {"enabled", "up"}
    /\ txq[DpTxq].hw_regs
    /\ pe.pc # "handler_wait"
    /\ Txq_close(DpTxq) /\ TdCall("close", DpTxq)
    /\ UNCHANGED dpVars

\* await cq.close() once the ring is closed
UbCqClose ==
    /\ ndev.open_pc \in {"enabled", "up"}
    /\ ~txq[DpTxq].hw_regs /\ cq[DpCq].hw_regs
    /\ pe.pc # "handler_wait"
    /\ Cq_close(DpCq) /\ TdCall("close", DpCq)
    /\ UNCHANGED dpVars

\* ========================================================================
\* The RX data path with the posted descriptors completing out of order
\* (refill_buffers 1014-1024 against process_rx_cq 1026-1091)
\* ========================================================================

\* the RX hardware completes one of the RfWindow oldest descriptors it holds
RfWindow == 2

\* completions the RX hardware writes in one behaviour
RfMaxRx == 9

RfHwRxComplete ==
    /\ rxq[DpRxq].hw_regs
    /\ hw_rxq[rxq[DpRxq].index].enable
    /\ Len(cq_log.produced) < RfMaxRx
    /\ \E d \in hw_pend :
          /\ \A o \in hw_pend : d - o < RfWindow
          /\ HwComplete(d)

\* ========================================================================
\* Properties
\* ========================================================================

\* C1: after any sequence of alloc() and free(x) of held indices the free
\* list is sorted ascending, alloc() returns the smallest index of the free
\* set, and an alloc() directly after free(x) returns x when x is the lowest
\* free index.
C1_AllocReturnsLowestFree ==
    /\ IsSorted(free_list)
    /\ pool_last.op = "alloc" =>
          /\ pool_last.arg = SetMin(Range(pool_last.before))
          /\ Range(free_list) = Range(pool_last.before) \ {pool_last.arg}
          /\ (pool_last.freed # None
              /\ pool_last.freed = SetMin(Range(pool_last.before)))
                 => pool_last.arg = pool_last.freed
    /\ pool_last.op = "free" =>
          Range(free_list) = Range(pool_last.before) \cup {pool_last.arg}

\* C1 witness: an alloc() directly after free(x) returned x while higher
\* indices were still allocated and a lower index had been re-freed earlier
C1_Witness ==
    /\ pool_last.op = "alloc"
    /\ pool_last.freed = pool_last.arg
    /\ pool_last.arg = 1
    /\ {0, 2, 3} \subseteq pool_held

OpenEqs == {e \in EqObjs : eq[e].hw_regs}
OpenCqs == {c \in CqObjs : cq[c].hw_regs}
OpenTxqs == {t \in TxqObjs : txq[t].hw_regs}
OpenRxqs == {r \in RxqObjs : rxq[r].hw_regs}

\* C2: no two open queues of one type hold the same slot index, and no
\* index held by an open queue is in its pool's free list.
C2_SlotOwnership ==
    /\ \A a, b \in OpenEqs : a # b => eq[a].eqn # eq[b].eqn
    /\ \A a, b \in OpenCqs : a # b => cq[a].cqn # cq[b].cqn
    /\ \A a, b \in OpenTxqs : a # b => txq[a].index # txq[b].index
    /\ \A a, b \in OpenRxqs : a # b => rxq[a].index # rxq[b].index
    /\ \A e \in OpenEqs : eq[e].eqn \in 0..(MQNIC_MAX_EQ - 1) \ Range(eq_res)
    /\ \A c \in OpenCqs : cq[c].cqn \in 0..(QueueCount - 1) \ Range(cq_res)
    /\ \A t \in OpenTxqs : txq[t].index \in 0..(QueueCount - 1) \ Range(txq_res)
    /\ \A r \in OpenRxqs : rxq[r].index \in 0..(QueueCount - 1) \ Range(rxq_res)

\* C2 witness: two CQs and two rings open at once, the pools exhausted, a
\* CQ slot in its second use
C2_Witness ==
    /\ OpenEqs # {}
    /\ OpenCqs = CqObjs /\ cq["c0"].cqn = 1 /\ cq["c1"].cqn = 0
    /\ (OpenTxqs = TxqObjs \/ OpenRxqs = RxqObjs)


\* C3: for a ring of capacity C and counters with 0 <= prod_ptr - cons_ptr
\* <= C, also beyond 2^16, full() is true iff prod_ptr - cons_ptr >= C/2
\* (C/2 the halved capacity size >> 1) and empty() iff prod_ptr == cons_ptr.
C3_HalfRingFull ==
    /\ rp_ring.prod_ptr - rp_ring.cons_ptr \in 0..rp_ring.size
    /\ rp_out.called =>
          /\ rp_out.full <=>
                (rp_ring.prod_ptr - rp_ring.cons_ptr >= rp_ring.size \div 2)
          /\ rp_out.empty <=> (rp_ring.prod_ptr = rp_ring.cons_ptr)

\* C3 witness: full() answered true at exactly C/2 outstanding descriptors
\* with the producer counter past 2^16 and the consumer counter below it
C3_Witness ==
    /\ rp_out.called /\ rp_out.full /\ ~rp_out.empty
    /\ rp_ring.size = 4
    /\ rp_ring.prod_ptr - rp_ring.cons_ptr = 2
    /\ rp_ring.prod_ptr >= 65536 /\ rp_ring.cons_ptr < 65536

\* C3 witness: full() answered false at C/2 - 1
C3_WitnessBelow ==
    /\ rp_out.called /\ ~rp_out.full
    /\ rp_ring.size = 8
    /\ rp_ring.prod_ptr - rp_ring.cons_ptr = 3
    /\ rp_ring.prod_ptr > 131070

\* the offset reached from the first recorded block after k links
RECURSIVE RbFollow(_, _)
RbFollow(start, k) ==
    IF k = 0 THEN start
    ELSE LET p == RbFollow(start, k - 1)
         IN IF p \in BlockOffsets THEN rb_mem[p].next ELSE p

\* the chain from start has n blocks: n - 1 aligned links to fresh offsets,
\* then a next pointer of 0
RbChainOfLen(start, n) ==
    /\ \A i \in 0..(n - 1) : RbFollow(start, i) \in BlockOffsets
    /\ \A i, j \in 0..(n - 1) : i # j => RbFollow(start, i) # RbFollow(start, j)
    /\ RbFollow(start, n) = 0

RbWellFormed(start) == \E n \in 1..NumBlocks : RbChainOfLen(start, n)

\* the start offset of the running or finished enumeration
RbStart == IF rb_blocks = <<>> THEN rb_offset ELSE rb_blocks[1].offset

\* C9: on a chain whose next pointers are 4-byte aligned and never revisit
\* an offset the enumeration never fails, records the blocks in link order
\* with the type and version read at their offsets, each once, and returns
\* when it reads a next pointer of 0.
C9_ChainEnumerated ==
    /\ [](rb_pc # "idle" /\ RbWellFormed(RbStart) =>
            /\ rb_pc \in {"run", "done"}
            /\ \A i \in 1..Len(rb_blocks) :
                  rb_blocks[i] = [offset |-> RbFollow(RbStart, i - 1),
                                  type |-> rb_mem[RbFollow(RbStart, i - 1)].type,
                                  version |-> rb_mem[RbFollow(RbStart, i - 1)].version]
            /\ rb_pc = "done" => RbChainOfLen(RbStart, Len(rb_blocks))
            /\ rb_pc = "run" => rb_offset = RbFollow(RbStart, Len(rb_blocks)))
    /\ ((rb_pc = "run" /\ RbWellFormed(RbStart)) ~> (rb_pc = "done"))

\* C9 witness: a chain of three blocks, linked against the address order,
\* was enumerated to its end
C9_Witness ==
    /\ rb_pc = "done"
    /\ Len(rb_blocks) = 3
    /\ rb_blocks[1].offset = 0 /\ rb_blocks[2].offset = 32 /\ rb_blocks[3].offset = 16
    /\ rb_blocks[1].type # rb_blocks[2].type

\* the next pointer the running pass is going to read
RbNextPtr == rb_mem[rb_offset].next

\* a non-zero pointer that is misaligned or names a block visited before,
\* the block being visited included
RbBadPtr ==
    /\ RbNextPtr # 0
    /\ \/ RbNextPtr % 4 # 0
       \/ RbNextPtr = rb_offset
       \/ \E i \in 1..Len(rb_blocks) : rb_blocks[i].offset = RbNextPtr

\* C10: the pass that reads a non-zero next pointer which is misaligned or
\* equals the offset of a block already visited (the starting block and the
\* block itself included) ends the enumeration with a failure; no further
\* block is read.
C10_MalformedDetected ==
    [][(rb_pc = "run" /\ RbBadPtr) =>
           /\ rb_pc' \in {"not aligned", "loop"}
           /\ rb_pc' = "not aligned" <=> RbNextPtr % 4 # 0]_rbVars

\* C10 witness: the second block points back to the starting block
C10_Witness ==
    /\ rb_pc = "loop"
    /\ Len(rb_blocks) = 2
    /\ rb_offset = rb_blocks[1].offset

\* C10 witness: the third block points back to the second
C10_WitnessBack ==
    /\ rb_pc = "loop"
    /\ Len(rb_blocks) = 3
    /\ rb_offset = rb_blocks[2].offset

\* C10 witness: a block pointing to itself
C10_WitnessSelf ==
    /\ rb_pc = "loop"
    /\ Len(rb_blocks) = 2
    /\ rb_offset = rb_blocks[2].offset

\* C10 witness: a misaligned pointer
C10_WitnessMisaligned ==
    /\ rb_pc = "not aligned"
    /\ rb_offset \in MisalignedPtrs

\* the variables of the components that the first three specifications leave alone
\* the groups of the stand-alone components
\* the variables of the function and overlap models
\* ========================================================================
\* close() of one object called again while an earlier call is suspended at
\* its disable write (Eq.close 527-542, Cq.close 651-667, Txq.close 753-771,
\* Rxq.close 940-958)
\* ========================================================================

\* kind: the class of the object the calls close; pc: where each call is
\* ("out" not made, "write" suspended at the disable write, otherwise the
\* result it returned with); n: the register window each call holds;
\* overlapped: a call was made while another one was suspended
VARIABLES oc

\* the calls of close() made on the object
OcCallers == {1, 2, 3}

OcKinds == {"eq", "cq", "txq", "rxq"}

OcIdle ==
    oc = [kind |-> "eq", pc |-> [k \in OcCallers |-> "out"],
          n |-> [k \in OcCallers |-> None], overlapped |-> FALSE]

OcInit ==
    \E kd \in OcKinds :
        oc = [kind |-> kd, pc |-> [k \in OcCallers |-> "out"],
              n |-> [k \in OcCallers |-> None], overlapped |-> FALSE]

\* the object closed, its fields and its pool
OcObj == CASE oc.kind = "eq" -> "e0" [] oc.kind = "cq" -> "c0"
           [] oc.kind = "txq" -> "t0" [] OTHER -> "r0"
OcOpen == CASE oc.kind = "eq" -> eq["e0"].hw_regs
            [] oc.kind = "cq" -> cq["c0"].hw_regs
            [] oc.kind = "txq" -> txq["t0"].hw_regs
            [] OTHER -> rxq["r0"].hw_regs
OcSlot == CASE oc.kind = "eq" -> eq["e0"].eqn
            [] oc.kind = "cq" -> cq["c0"].cqn
            [] oc.kind = "txq" -> txq["t0"].index
            [] OTHER -> rxq["r0"].index
OcPool == CASE oc.kind = "eq" -> eq_res [] oc.kind = "cq" -> cq_res
            [] oc.kind = "txq" -> txq_res [] OTHER -> rxq_res
OcPoolCount == IF oc.kind = "eq" THEN MQNIC_MAX_EQ ELSE QueueCount

\* Resource.free: free_list.sort() compares the entries; None against an
\* int raises TypeError
Resource_free_raises(fl, index) ==
    LET l == Append(fl, index)
    IN /\ \E i \in 1..Len(l) : l[i] = None
       /\ \E i \in 1..Len(l) : l[i] # None

\* a sort() that orders None like an index
Resource_free_list_quiet(fl, index) == Resource_free(fl, index)

\* Resource.free: the list left; a sort() that raises leaves the entries
\* in the order it found them (the list was sorted, the new entry is last)
Resource_free_list(fl, index) ==
    IF Resource_free_raises(fl, index)
    THEN Append(fl, index)
    ELSE Resource_free(fl, index)

Resource_free_result(fl, index) ==
    IF Resource_free_raises(fl, index) THEN "TypeError" ELSE "ok"

\* Eq.close from the return of the disable write issued on window n
Eq_close_resume(e, n) ==
    IF eq[e].hw_regs
    THEN Eq_close(e)
    ELSE \* closed in the meantime: self.eqn is None
         /\ hw_eq' = [hw_eq EXCEPT ![n].enable = FALSE]
         /\ eq' = [eq EXCEPT ![e].irq = None, ![e].enabled = FALSE,
                             ![e].hw_regs = FALSE]
         /\ eq_res' = Resource_free_list(eq_res, eq[e].eqn)
         /\ Called("Eq.close", e, Resource_free_result(eq_res, eq[e].eqn), 1)
         /\ UNCHANGED <<cq_res, txq_res, rxq_res, cq, txq, rxq,
                        hw_cq, hw_txq, hw_rxq, driver>>

\* Cq.close from the return of the disable write issued on window n
Cq_close_resume(c, n) ==
    IF cq[c].hw_regs
    THEN Cq_close(c)
    ELSE \* closed in the meantime: self.eq is None, self.eq.detach_cq
         \* raises AttributeError
         /\ hw_cq' = [hw_cq EXCEPT ![n].enable = FALSE]
         /\ Called("Cq.close", c, "AttributeError", 1)
         /\ UNCHANGED <<resVars, objVars, hw_eq, hw_txq, hw_rxq, driver>>

\* Txq.close from the return of the write of disable() on window n
Txq_close_resume(t, n) ==
    IF txq[t].hw_regs
    THEN Txq_close(t)
    ELSE \* closed in the meantime: self.cq and self.index are None
         /\ hw_txq' = [hw_txq EXCEPT ![n].enable = FALSE]
         /\ cq' = Cq_unbound(txq[t])
         /\ txq' = [txq EXCEPT ![t] = Ring_closed(@)]
         /\ txq_res' = Resource_free_list(txq_res, txq[t].index)
         /\ Called("Txq.close", t,
                   Resource_free_result(txq_res, txq[t].index), 1)
         /\ UNCHANGED <<eq_res, cq_res, rxq_res, eq, rxq,
                        hw_eq, hw_cq, hw_rxq, driver>>

Rxq_close_resume(r, n) ==
    IF rxq[r].hw_regs
    THEN Rxq_close(r)
    ELSE /\ hw_rxq' = [hw_rxq EXCEPT ![n].enable = FALSE]
         /\ cq' = Cq_unbound(rxq[r])
         /\ rxq' = [rxq EXCEPT ![r] = Ring_closed(@)]
         /\ rxq_res' = Resource_free_list(rxq_res, rxq[r].index)
         /\ Called("Rxq.close", r,
                   Resource_free_result(rxq_res, rxq[r].index), 1)
         /\ UNCHANGED <<eq_res, cq_res, txq_res, eq, txq,
                        hw_eq, hw_cq, hw_txq, driver>>

\* the objects are opened before the first close() is called
OcNoCall == \A k \in OcCallers : oc.pc[k] = "out"

OcOpenEq ==
    /\ OcNoCall
    /\ Eq_open("e0", 0, QueueSize)
    /\ UNCHANGED <<oc, q_kind>>

OcOpenCq ==
    /\ OcNoCall /\ oc.kind # "eq"
    /\ Cq_open("c0", "e0", QueueSize)
    /\ UNCHANGED <<oc, q_kind>>

OcOpenRing ==
    /\ OcNoCall /\ oc.kind \in {"txq", "rxq"}
    /\ IF oc.kind = "txq"
       THEN Txq_open("t0", "ndev0", "c0", QueueSize, DescBlockSize)
       ELSE Rxq_open("r0", "ndev0", "c0", QueueSize, DescBlockSize)
    /\ UNCHANGED <<oc, q_kind>>

\* close() up to its await: if not self.hw_regs: return; the disable write
\* is issued on self.hw_regs and the call is suspended
Oc_close_call(k) ==
    /\ oc.pc[k] = "out"
    /\ IF ~OcOpen
       THEN /\ oc' = [oc EXCEPT !.pc[k] = "ok"]
            /\ Called("close", OcObj, "ok", 0)
       ELSE /\ oc' = [oc EXCEPT !.pc[k] = "write", !.n[k] = OcSlot,
                  !.overlapped = @ \/ \E j \in OcCallers : oc.pc[j] = "write"]
            /\ UNCHANGED callVars
    /\ UNCHANGED <<resVars, objVars, hwVars, driver, q_kind>>

\* the write returns and the call runs to its end
Oc_close_resume(k) ==
    /\ oc.pc[k] = "write"
    /\ CASE oc.kind = "eq" -> Eq_close_resume("e0", oc.n[k])
         [] oc.kind = "cq" -> Cq_close_resume("c0", oc.n[k])
         [] oc.kind = "txq" -> Txq_close_resume("t0", oc.n[k])
         [] OTHER -> Rxq_close_resume("r0", oc.n[k])
    /\ oc' = [oc EXCEPT !.pc[k] = last_call']
    /\ UNCHANGED q_kind

OcCloseCall == \E k \in OcCallers : Oc_close_call(k)
OcCloseResume == \E k \in OcCallers : Oc_close_resume(k)

\* ========================================================================
\* NetDev.open called again while an earlier call is suspended (mqnic.py
\* 1448-1508).  What the calls acquire: the scheduler port
\* (alloc_sched_port 1952-1953), the CQs and rings and their pool slots.
\* The register writes between the acquisitions are the suspension points.
\* ========================================================================

\* pc: where each call is ("out" not made, a statement of OpenOrder it is
\* suspended before, "up" or "ok" returned, "IndexError" raised); cq: the
\* local variable cq of each call; sched_ports (their number),
\* free_sched_ports, sched_port, rxq, txq, port_up: the fields of the
\* interface and the device; cq_res, rxq_res,
\* txq_res: the pools; overlapped: a call was made while another one was
\* suspended
VARIABLES oo

\* the calls of open() made on the device
OoCallers == {1, 2}

\* scheduler ports the interface has registered, at most
OoSchedPorts == 2

\* slots of each pool
OoQueueCount == 4

OoNew(ports) ==
    [pc |-> [k \in OoCallers |-> "out"], cq |-> [k \in OoCallers |-> None],
     sched_ports |-> ports, free_sched_ports |-> [i \in 1..ports |-> i],
     sched_port |-> None,
     rxq |-> <<>>, txq |-> <<>>, port_up |-> FALSE,
     cq_res |-> Resource_init(OoQueueCount),
     rxq_res |-> Resource_init(OoQueueCount),
     txq_res |-> Resource_init(OoQueueCount), overlapped |-> FALSE]

OoIdle == oo = OoNew(0)

OoInit == \E ports \in 1..OoSchedPorts : oo = OoNew(ports)

OoSuspended(k) == oo.pc[k] \in {OpenOrder[i] : i \in 1..Len(OpenOrder) - 1}

\* open(): if self.port_up: return
Oo_entered(k) == oo.port_up

\* open() up to its first await: the port_up test and alloc_sched_port()
Oo_open_call(k) ==
    /\ oo.pc[k] = "out"
    /\ oo' = IF Oo_entered(k)
             THEN [oo EXCEPT !.pc[k] = "ok"]
             ELSE IF oo.free_sched_ports = <<>>
             THEN [oo EXCEPT !.pc[k] = "IndexError",
                      !.overlapped = @ \/ \E j \in OoCallers : OoSuspended(j)]
             ELSE [oo EXCEPT !.pc[k] = OpenOrder[1],
                      !.sched_port = Head(oo.free_sched_ports),
                      !.free_sched_ports = Tail(@),
                      !.overlapped = @ \/ \E j \in OoCallers : OoSuspended(j)]

\* create_cq() and cq.open(): the CQ takes a slot of the pool
Oo_cq_open(k) ==
    /\ oo.pc[k] \in {"rx_cq_open", "tx_cq_open"}
    /\ oo' = IF oo.cq_res = <<>>
             THEN [oo EXCEPT !.pc[k] = "IndexError"]
             ELSE [oo EXCEPT !.pc[k] = open_next(@),
                      !.cq[k] = Resource_alloc_ret(oo.cq_res),
                      !.cq_res = Resource_alloc(@)]

\* create_rxq(), rxq.open() and self.rxq.append(rxq); the same for the TXQ
Oo_ring_open(k) ==
    \/ /\ oo.pc[k] = "rx_open"
       /\ oo' = IF oo.rxq_res = <<>>
                THEN [oo EXCEPT !.pc[k] = "IndexError"]
                ELSE [oo EXCEPT !.pc[k] = open_next(@),
                         !.rxq = Append(@, [index |-> Resource_alloc_ret(oo.rxq_res),
                                            cq |-> oo.cq[k]]),
                         !.rxq_res = Resource_alloc(@)]
    \/ /\ oo.pc[k] = "tx_open"
       /\ oo' = IF oo.txq_res = <<>>
                THEN [oo EXCEPT !.pc[k] = "IndexError"]
                ELSE [oo EXCEPT !.pc[k] = open_next(@),
                         !.txq = Append(@, [index |-> Resource_alloc_ret(oo.txq_res),
                                            cq |-> oo.cq[k]]),
                         !.txq_res = Resource_alloc(@)]

\* the statements that write registers (cq.arm, the indirection table,
\* q.enable, the port and the scheduler) and the final read
Oo_reg(k) ==
    /\ OoSuspended(k)
    /\ oo.pc[k] \notin {"rx_cq_open", "tx_cq_open", "rx_open", "tx_open", "port_up"}
    /\ oo' = [oo EXCEPT !.pc[k] = open_next(@)]

\* self.port_up = True, and the call returns
Oo_up(k) ==
    /\ oo.pc[k] = "port_up"
    /\ oo' = [oo EXCEPT !.pc[k] = open_next(@), !.port_up = TRUE]

OoOpenCall == \E k \in OoCallers : Oo_open_call(k)
OoCqOpen == \E k \in OoCallers : Oo_cq_open(k)
OoRingOpen == \E k \in OoCallers : Oo_ring_open(k)
OoReg == \E k \in OoCallers : Oo_reg(k)
OoUp == \E k \in OoCallers : Oo_up(k)

uVars == <<oc, oo>>

UIdle == OcIdle /\ OoIdle

wVars == <<rc, lv, uVars>>

WIdle == RcIdle /\ LvIdle /\ UIdle

zVars == <<rbVars, fcVars, schVars>>

yVars == <<tdVars, devVars, irqVars, rvVars, buVars, wVars>>

YIdle == TdIdle /\ DevIdle /\ IrqIdle /\ RvIdle /\ BuIdle /\ WIdle

xVars == <<zVars, yVars>>

XIdle == RbIdle /\ FcIdle /\ SchedInit /\ YIdle

\* v rounded up to a multiple of s
RoundUp(v, s) == IF v % s = 0 THEN v ELSE (v \div s + 1) * s

\* the number of units of s that cover v
UnitsFor(v, s) == RoundUp(v, s) \div s

\* C8 as stated: for all v >= 0, get_ch_data_budget after
\* set_ch_data_budget(port, tc, v) returns ceil(v / fc_scale) * fc_scale, and
\* get_ch_data_limit after set_ch_data_limit(port, tc, v) likewise.
C8_RoundTripAll ==
    /\ (fc_last.op = "get_ch_data_budget" /\ fc_req.db[fc_last.ch] # None) =>
          fc_last.ret = RoundUp(fc_req.db[fc_last.ch], sch.fc_scale)
    /\ (fc_last.op = "get_ch_data_limit" /\ fc_req.dl[fc_last.ch] # None) =>
          fc_last.ret = RoundUp(fc_req.dl[fc_last.ch], sch.fc_scale)

\* C8 amended: the round trip returns ceil(v / fc_scale) * fc_scale for
\* every v whose unit count ceil(v / fc_scale) fits the register, 16 bits
\* for the data budget and 32 bits for the data limit (the limit values of
\* the model all fit); such a set_ch_data_budget raises nothing.
C8_RoundTripInRange ==
    /\ (fc_last.op = "get_ch_data_budget" /\ fc_req.db[fc_last.ch] # None
            /\ UnitsFor(fc_req.db[fc_last.ch], sch.fc_scale) <= WordMax) =>
          fc_last.ret = RoundUp(fc_req.db[fc_last.ch], sch.fc_scale)
    /\ (fc_last.op = "get_ch_data_limit" /\ fc_req.dl[fc_last.ch] # None) =>
          fc_last.ret = RoundUp(fc_req.dl[fc_last.ch], sch.fc_scale)
    /\ (fc_last.op = "set_ch_data_budget"
            /\ UnitsFor(fc_last.val, sch.fc_scale) <= WordMax) =>
          fc_last.exc = "none"

\* C8 witness: fc_scale 64, a budget of 9000 stored as 141 units and read
\* back as 9024, on the second channel
C8_Witness ==
    /\ sch.fc_scale = 64
    /\ fc_last.op = "get_ch_data_budget" /\ fc_last.ch = 1
    /\ fc_req.db[1] = 9000
    /\ sch_regs[MQNIC_RB_SCHED_RR_REG_CH0_FC2_DB + MQNIC_RB_SCHED_RR_REG_CH_STRIDE] = 141
    /\ fc_last.ret = 9024

\* C7: under any interleaving of enable()/disable() through the views of
\* one scheduler, the register is written 1 only by the enable() that takes
\* the count from 0 to 1 and 0 only by the disable() that takes it from 1 to
\* 0, and the hardware is enabled whenever a view is enabled.
C7_EnableRefCounted ==
    /\ (sch_last.op = "enable" /\ sch_last.wrote) => sch_last.from = 0
    /\ (sch_last.op = "disable" /\ sch_last.wrote) => sch_last.to = 0
    /\ (\E v \in SchedViews : sch_view[v] = "on") => sch_ctrl = 1

\* C7, the part on the hardware alone, with every call returned and every
\* write performed: an enabled view implies an enabled hardware
C7_EnabledAtRest ==
    (/\ sch_bus = <<>>
     /\ \A v \in SchedViews : sch_view[v] \in {"on", "off"}
     /\ \E v \in SchedViews : sch_view[v] = "on") => sch_ctrl = 1

\* s is an initial segment of t
IsPrefix(s, t) == Len(s) <= Len(t) /\ \A i \in 1..Len(s) : s[i] = t[i]

\* C4: a slot of the EQ or CQ is consumed iff its phase bit differs from
\* bool(cons_ptr & size), the scan stopping at the first slot where they are
\* equal: with the hardware writing each entry with the phase of its pass,
\* the CQ handler consumes exactly the completions produced and not yet
\* consumed, in order, and process_eq exactly the events produced, a slot
\* that still holds the phase of the previous pass counting as not produced,
\* over any number of wraparounds.
C4_PhaseScanExact ==
    /\ [](/\ IsPrefix(cq_log.consumed, cq_log.produced)
          /\ cq[DpCq].hw_regs =>
                /\ cq[DpCq].cons_ptr = Len(cq_log.consumed)
                /\ Len(cq_log.produced) - cq[DpCq].cons_ptr <= cq[DpCq].size
          /\ eq[DpEq].hw_regs =>
                /\ eq[DpEq].cons_ptr <= hw_eq[eq[DpEq].eqn].prod_ptr
                /\ pe.pc # "idle" => pe.eq_cons_ptr <= hw_eq[eq[DpEq].eqn].prod_ptr
                /\ pe.pc \in {"handler_wait", "arm_wait"} =>
                      pe.eq_cons_ptr < hw_eq[eq[DpEq].eqn].prod_ptr
          /\ pe.pc # "dead")
    /\ [][/\ (pe.pc # "handler_wait" /\ pe'.pc = "handler_wait") =>
                cq_log'.consumed = cq_log.produced
          /\ (pe.pc # "write_cons" /\ pe'.pc = "write_cons") =>
                eq'[DpEq].cons_ptr = hw_eq[eq[DpEq].eqn].prod_ptr
          /\ (pe.pc = "arm_wait" /\ pe'.pc # "arm_wait") =>
                pe'.eq_cons_ptr > pe.eq_cons_ptr
         ]_<<objVars, dpVars>>

\* C4 witness: the CQ handler consumed the completions of the second pass
\* over the ring and stopped at a slot that holds the phase of that pass,
\* with process_eq on the second pass over the EQ
C4_Witness ==
    /\ pe.pc = "handler_wait"
    /\ cq[DpCq].cons_ptr = 2 * cq[DpCq].size
    /\ cq_log.consumed = cq_log.produced
    /\ cq[DpCq].buf[1].phase = FALSE
    /\ pe.eq_cons_ptr >= eq[DpEq].size

\* the TX ring of the device
TxRing == txq[DpTxq]

\* every completion delivered and handled, the handler run to its end
TxAtRest ==
    /\ ndev.port_up
    /\ hw_pend = {}
    /\ cq[DpCq].cons_ptr = Len(cq_log.produced)
    /\ pe.pc \in {"idle", "arm_wait", "write_cons"}

\* C5: on an Up device no packet buffer is in the free pool twice or in the
\* free pool while a ring slot owns it, no two slots own one buffer, and
\* once every submitted descriptor (never more than capacity/2 outstanding)
\* got its one completion, in any order, and the handler ran, the ring is
\* empty, every tx_info slot is empty and every buffer allocated is back in
\* the free pool.
C5_TxCycle ==
    /\ NoDup(driver.free_packets)
    /\ TxRing.hw_regs =>
          /\ \A i \in 1..TxRing.size :
                TxRing.info[i] # None =>
                    /\ TxRing.info[i] \notin Range(driver.free_packets)
                    /\ \A j \in 1..TxRing.size :
                          j # i => TxRing.info[j] # TxRing.info[i]
          /\ TxRing.prod_ptr - TxRing.cons_ptr <= TxRing.full_size
          /\ TxAtRest =>
                /\ Ring_empty(TxRing)
                /\ \A i \in 1..TxRing.size : TxRing.info[i] = None
                /\ Range(driver.free_packets) = Range(driver.allocated_packets)
                /\ Len(driver.free_packets) = Len(driver.allocated_packets)
    /\ last_call # "AssertionError"

\* C5 witness: a full ring of two descriptors, completed in the reverse
\* order, handled, both buffers back in the pool in completion order
C5_Witness ==
    /\ TxAtRest
    /\ TxRing.prod_ptr = 2 /\ TxRing.cons_ptr = 2
    /\ cq_log.consumed = <<1, 0>>
    /\ driver.free_packets = <<2, 1>>
    /\ pe.pc = "idle"

\* the RX ring of the device
RxRing == rxq[DpRxq]

\* C6: after Rxq.open() and after every run of process_rx_cq on an Up
\* device fewer than 8 descriptors are missing; refill_buffers() changes
\* nothing exactly when fewer than 8 slots are missing and otherwise
\* allocates one buffer per missing slot, advances prod_ptr by that number
\* and writes the producer pointer once.
C6_RxRefill ==
    /\ RxRing.hw_regs => refill_missing(RxRing) < 8
    /\ dp_last.after # "none" =>
          /\ dp_last.same <=> dp_last.missing < 8
          /\ dp_last.missing < 8 =>
                /\ dp_last.allocs = 0 /\ dp_last.writes = 0
                /\ RxRing.prod_ptr = dp_last.prod_before
          /\ dp_last.missing >= 8 =>
                /\ dp_last.allocs = dp_last.missing
                /\ dp_last.writes = 1
                /\ RxRing.prod_ptr = dp_last.prod_before + dp_last.missing
                /\ hw_rxq[RxRing.index].prod_ptr = RxRing.prod_ptr % 65536
                /\ refill_missing(RxRing) = 0

\* C6 witness: a run of process_rx_cq found nine slots missing and filled
\* them, seven of them left missing by earlier runs
C6_Witness ==
    /\ dp_last.after = "process_rx_cq"
    /\ dp_last.missing = 9
    /\ dp_last.allocs = 9
    /\ ndev.port_up
    /\ RxRing.prod_ptr = 25 /\ RxRing.cons_ptr = 9

\* C6 witness: a run that found fewer than 8 slots missing and left them
C6_WitnessNoop ==
    /\ dp_last.after = "process_rx_cq"
    /\ dp_last.missing = 7
    /\ RxRing.prod_ptr = 16 /\ RxRing.cons_ptr = 7

\* C19: a close() that closes an open EQ leaves the hardware enable bit of
\* its slot cleared, the IRQ binding cleared, the CQ dispatch map empty and
\* the slot index back in the EQ pool, and the queue can be opened again.
C19_EqCloseEffects ==
    [][\A e \in EqObjs :
          (eq[e].hw_regs /\ ~eq'[e].hw_regs) =>
             /\ ~hw_eq'[eq[e].eqn].enable
             /\ eq'[e].irq = None
             /\ eq'[e].cq_table = {}
             /\ eq[e].eqn \in Range(eq_res')
             /\ eq_res' # <<>>]_<<objVars, hwVars, resVars>>

\* C19, the dispatch map alone: a closed EQ has no CQ in its map
C19_ClosedMapEmpty == \A e \in EqObjs : ~eq[e].hw_regs => eq[e].cq_table = {}

\* the indices of a pool of count slots that no open object holds
FreeSlots(count, held) == (0..(count - 1)) \ held

\* C20: close(), disable() and arm() on an object that is not open return
\* without error, issue no register access and change no object, register
\* or pool; every pool holds each index that no open object holds exactly
\* once.
C20_TeardownNoOp ==
    /\ [][(td_call'.op \in {"close", "disable", "arm"} /\ ~IsOpen(td_call'.obj)) =>
             /\ last_call' = "ok"
             /\ reg_access' = 0
             /\ UNCHANGED <<objVars, hwVars, resVars, driver>>]_<<callVars, tdVars, objVars, hwVars, resVars, driver>>
    /\ [](/\ NoDup(eq_res) /\ NoDup(cq_res) /\ NoDup(txq_res) /\ NoDup(rxq_res)
          /\ Range(eq_res) = FreeSlots(MQNIC_MAX_EQ,
                 {eq[e].eqn : e \in {x \in EqObjs : eq[x].hw_regs}})
          /\ Range(cq_res) = FreeSlots(QueueCount,
                 {cq[c].cqn : c \in {x \in CqObjs : cq[x].hw_regs}})
          /\ Range(txq_res) = FreeSlots(QueueCount,
                 {txq[t].index : t \in {x \in TxqObjs : txq[x].hw_regs}})
          /\ Range(rxq_res) = FreeSlots(QueueCount,
                 {rxq[r].index : r \in {x \in RxqObjs : rxq[x].hw_regs}}))

\* C20 witness: the EQ was opened and closed, and close() was called again:
\* slot 0 is in the pool once
C20_Witness ==
    /\ td_call = [op |-> "close", obj |-> DpEq]
    /\ ~eq[DpEq].hw_regs /\ eq[DpEq].size = QueueSize
    /\ reg_access = 0 /\ last_call = "ok"
    /\ eq_res = <<0>>

\* C20 witness: disable() on a ring that was opened and closed
C20_WitnessDisable ==
    /\ td_call.op = "disable"
    /\ ~IsOpen(td_call.obj)
    /\ (txq[DpTxq].size = QueueSize \/ rxq[DpRxq].size = QueueSize)
    /\ reg_access = 0

\* C20 witness: arm() on a CQ that was opened and closed
C20_WitnessArm ==
    /\ td_call = [op |-> "arm", obj |-> DpCq]
    /\ ~cq[DpCq].hw_regs /\ cq[DpCq].size = QueueSize
    /\ reg_access = 0

\* the TX ring and the CQ of the device, and what the claims say of them
DevRing == txq[DpTxq]

\* C11: open() on a device that is up and close() on a device that is down
\* return without error, issue no register access and change no device,
\* ring, CQ, pool or scheduler-port state.
C11_LifecycleIdempotent ==
    [][((dev_call' = "open" /\ ndev.port_up)
           \/ (dev_call' = "close" /\ ~ndev.port_up)) =>
          /\ last_call' = "ok"
          /\ reg_access' = 0
          /\ UNCHANGED <<ndev, objVars, hwVars, resVars, driver, xm,
                         free_sched_ports, sched_port, pe, hw_pend>>
      ]_<<callVars, devVars, dpVars, objVars, hwVars, resVars, driver>>

\* C11 witness: open() was called on the device while it was up and had
\* packets in its ring
C11_Witness ==
    /\ dev_call = "open" /\ ndev.port_up
    /\ last_call = "ok" /\ reg_access = 0
    /\ DevRing.prod_ptr > DevRing.cons_ptr

\* C11 witness: close() was called on a device that had been up and was
\* down already
C11_WitnessClose ==
    /\ dev_call = "close" /\ ~ndev.port_up /\ ndev.open_pc = "up"
    /\ last_call = "ok" /\ reg_access = 0

\* C12: close() on a device that is up completes and leaves it down, its
\* ring and CQ closed with their slots back in the pools, no packet buffer
\* owned by the ring, its CQ out of the EQ's dispatch map and its scheduler
\* port back in the interface's free list.
C12_CloseReleases ==
    [][(dev_call' = "close" /\ ndev.port_up) =>
          /\ last_call' = "ok"
          /\ ~ndev'.port_up
          /\ ~txq'[DpTxq].hw_regs /\ ~cq'[DpCq].hw_regs
          /\ Len(txq_res') = QueueCount /\ Len(cq_res') = QueueCount
          /\ Len(driver'.free_packets) = Len(driver'.allocated_packets)
          /\ eq'[DpEq].cq_table = {}
          /\ sched_port' = NoObj
          /\ free_sched_ports' = SchedPorts
      ]_<<callVars, devVars, dpVars, objVars, hwVars, resVars, driver>>

\* C13: once the port has been taken down, no step allocates a packet
\* buffer, writes a descriptor slot, advances the producer pointer, frees a
\* descriptor or changes the ring's or the CQ's consumer pointer.
C13_PortUpGate ==
    [][(~ndev.port_up /\ ndev.open_pc = "up") =>
          /\ driver' = driver
          /\ txq'[DpTxq].info = txq[DpTxq].info
          /\ txq'[DpTxq].prod_ptr = txq[DpTxq].prod_ptr
          /\ txq'[DpTxq].cons_ptr = txq[DpTxq].cons_ptr
          /\ cq'[DpCq].cons_ptr = cq[DpCq].cons_ptr
      ]_<<callVars, devVars, dpVars, objVars, hwVars, resVars, driver>>

\* C13, the submission alone: with the port down no buffer is allocated and
\* the producer pointer stays
C13_NoSubmitWhenDown ==
    [][(~ndev.port_up /\ ndev.open_pc = "up") =>
          /\ Len(driver'.allocated_packets) + Len(driver.free_packets)
                = Len(driver.allocated_packets) + Len(driver'.free_packets)
             \/ Len(driver'.free_packets) > Len(driver.free_packets)
          /\ txq'[DpTxq].prod_ptr = txq[DpTxq].prod_ptr
      ]_<<callVars, devVars, dpVars, objVars, hwVars, resVars, driver>>

\* the slot process_eq stops at when it runs from the top of its loop, and
\* whether that slot holds a completion event for a CQ not in the map
EqNextPtr ==
    Eq_skip(eq[DpEq], IF pe.pc = "idle" THEN eq[DpEq].cons_ptr
                      ELSE pe.eq_cons_ptr + 1)

EqNextUnknown ==
    LET e == eq[DpEq]
        entry == e.buf[And_mask(EqNextPtr, e.size_mask) + 1]
    IN /\ entry.phase # BitTest(EqNextPtr, e.size)
       /\ entry.type = 0
       /\ \A p \in e.cq_table : p[1] # entry.src

\* C14: when process_eq meets a produced completion event whose source is
\* not in the dispatch map, the call ends there with KeyError: no CQ, ring
\* or buffer changes (no handler runs), the EQ consumer pointer and the
\* hardware's copy stay where they were, and never pass that event.
C14_UnknownCq ==
    /\ [][(pe.pc \in {"idle", "arm_wait"} /\ pe' # pe /\ EqNextUnknown) =>
             /\ last_call' = "KeyError"
             /\ pe' = [pc |-> "dead", eq_cons_ptr |-> EqNextPtr]
             /\ UNCHANGED <<eq, cq, txq, rxq, driver, hw_eq, cq_log>>
         ]_<<callVars, devVars, dpVars, objVars, hwVars, resVars, driver>>
    /\ [](pe.pc = "dead" =>
             /\ eq[DpEq].cons_ptr <= pe.eq_cons_ptr
             /\ hw_eq[eq[DpEq].eqn].cons_ptr <= pe.eq_cons_ptr)

\* C14 witness: process_eq ended with KeyError at the second event, after
\* it had dispatched the first to the CQ of the device
C14_Witness ==
    /\ pe = [pc |-> "dead", eq_cons_ptr |-> 1]
    /\ last_call = "KeyError"
    /\ eq[DpEq].cons_ptr = 0
    /\ eq[DpEq].buf[1].type = 0 /\ eq[DpEq].buf[1].src = cq[DpCq].cqn
    /\ eq[DpEq].buf[2].type = 0 /\ eq[DpEq].buf[2].src # cq[DpCq].cqn
    /\ eq[DpEq].buf[2].phase

\* C17: the TX ring never holds more than half its capacity; the producer
\* pointer advances, by one, only from a state with fewer outstanding; a
\* submitter that runs its loop on a full ring waits, whether it was just
\* called or woken.
C17_TxBackpressure ==
    /\ [](DevRing.hw_regs =>
             /\ 0 <= DevRing.prod_ptr - DevRing.cons_ptr
             /\ 2 * (DevRing.prod_ptr - DevRing.cons_ptr) <= DevRing.size)
    /\ [][/\ txq'[DpTxq].prod_ptr # txq[DpTxq].prod_ptr =>
                /\ 2 * (DevRing.prod_ptr - DevRing.cons_ptr) < DevRing.size
                /\ txq'[DpTxq].prod_ptr = DevRing.prod_ptr + 1
          /\ \A s \in Submitters :
                (xm'[s] # xm[s] /\ xm[s] # "wait" /\ ndev.port_up
                   /\ 2 * (DevRing.prod_ptr - DevRing.cons_ptr) >= DevRing.size) =>
                   /\ xm'[s] = "wait"
                   /\ txq'[DpTxq].info = DevRing.info
                   /\ txq'[DpTxq].prod_ptr = DevRing.prod_ptr
                   /\ hw_txq' = hw_txq
         ]_<<callVars, devVars, dpVars, objVars, hwVars, resVars, driver>>

\* C17 witness: a submitter woken by a completion found the ring filled
\* again by the other one and waits once more (no call starts at this
\* producer pointer, so the waiter is one that was woken)
C17_Witness ==
    /\ \E s \in Submitters : xm[s] = "wait"
    /\ DevRing.prod_ptr - DevRing.cons_ptr = DevRing.full_size
    /\ DevRing.cons_ptr >= 1
    /\ DevRing.prod_ptr = DevMaxXmit

\* C17 witness: two submitters were woken by one set() while the ring has
\* room for one packet only
C17_WitnessWoken ==
    /\ \A s \in Submitters : xm[s] = "woken"
    /\ DevRing.prod_ptr - DevRing.cons_ptr = DevRing.full_size - 1

\* no event was produced since process_eq consumed the last one
EqNothingNew ==
    /\ eq[DpEq].hw_regs
    /\ hw_eq[eq[DpEq].eqn].prod_ptr = eq[DpEq].cons_ptr % 65536

\* C16: process_eq called when the hardware has produced no event since the
\* previous call consumes nothing: the consumer pointer stays, no handler
\* runs, no CQ is armed, no CQ, ring or buffer changes, and the register
\* write that ends it rewrites the value the hardware already holds.
C16_RedundantWakeup ==
    /\ [][(pe.pc = "idle" /\ pe'.pc # "idle" /\ EqNothingNew) =>
             /\ pe' = [pc |-> "write_cons", eq_cons_ptr |-> eq[DpEq].cons_ptr]
             /\ UNCHANGED <<objVars, hwVars, driver, hw_pend, cq_log, ndev>>
         ]_<<objVars, hwVars, driver, dpVars>>
    /\ [][(/\ pe.pc = "write_cons" /\ pe'.pc = "idle"
           /\ hw_eq[eq[DpEq].eqn].cons_ptr = eq[DpEq].cons_ptr % 65536) =>
             /\ hw_eq'[eq[DpEq].eqn].cons_ptr = hw_eq[eq[DpEq].eqn].cons_ptr
             /\ hw_eq'[eq[DpEq].eqn].prod_ptr = hw_eq[eq[DpEq].eqn].prod_ptr
             /\ UNCHANGED <<objVars, hw_cq, hw_txq, hw_rxq, driver, hw_pend,
                            cq_log, ndev>>
         ]_<<objVars, hwVars, driver, dpVars>>

\* C16 witness: process_eq runs a second time over an EQ that has wrapped
\* and holds nothing new; the hardware already has the pointer it writes
C16_Witness ==
    /\ pe = [pc |-> "write_cons", eq_cons_ptr |-> eq[DpEq].cons_ptr]
    /\ eq[DpEq].cons_ptr > eq[DpEq].size
    /\ hw_eq[eq[DpEq].eqn].cons_ptr = eq[DpEq].cons_ptr
    /\ hw_eq[eq[DpEq].eqn].prod_ptr = eq[DpEq].cons_ptr
    /\ cq[DpCq].cons_ptr >= 1

\* what delivery means on line i: the notifications invoked so far followed
\* by those still queued are exactly those signalled, in order, and at most
\* one invocation of the handler is in progress
IrqDelivered(i) ==
    /\ irq_invoked[i] \o irq_queue[i] = [n \in 1..irq_signalled[i] |-> n]
    /\ irq_active[i] <= 1

\* C15: on every IRQ line notifications are queued, none coalesced or
\* dropped; the handler is invoked once per notification in arrival order,
\* an invocation starting only after the previous one returned; every
\* signalled notification is eventually handled.
C15_IrqDelivery ==
    /\ [](\A i \in IrqLines : IrqDelivered(i))
    /\ \A i \in IrqLines : \A n \in 1..MaxNotify :
          (irq_signalled[i] >= n) ~> (Len(irq_invoked[i]) >= n)

\* C15 on the lines the driver itself makes (MSI callback and
\* _run_edge_interrupts)
C15_DriverLines ==
    /\ [](irq_kind # "from_edge" => \A i \in IrqLines : IrqDelivered(i))
    /\ \A i \in IrqLines : \A n \in 1..MaxNotify :
          (irq_kind # "from_edge" /\ irq_signalled[i] >= n)
             ~> (Len(irq_invoked[i]) >= n)

\* C15: a driver line has handled several notifications and holds more
C15_DriverBacklog ==
    /\ irq_kind = "edge"
    /\ Len(irq_invoked[0]) = 2 /\ irq_pc[0] = "handler"
    /\ Len(irq_queue[0]) = 1
    /\ irq_pc[1] = "handler"

\* the packet the k-th completion written by the hardware stands for
RxExpected(k) ==
    [data |-> [buf |-> rx_done[k].buf, len |-> rx_done[k].len],
     queue |-> rxq[DpRxq].index]

\* the packets recv() and recv_nowait() have returned, in order
RxHanded == [k \in 1..Len(recv_log) |-> recv_log[k].skb]

\* C18: the packets handed out so far followed by those in the receive queue
\* are exactly one packet per completion drained, in completion order, each
\* with the first `length` bytes of the buffer the slot of the completion
\* owned and the ring index; a packet is appended in the step that frees
\* its slot, from the buffer the slot still owns.
C18_RxDelivery ==
    /\ [](/\ IsPrefix(cq_log.consumed, cq_log.produced)
          /\ RxHanded \o ndev.pkt_rx_queue
                = [k \in 1..Len(cq_log.consumed) |-> RxExpected(k)]
          /\ \A k \in 1..Len(rx_done) : rx_done[k].buf # None)
    /\ [][\A k \in (Len(cq_log.consumed) + 1)..Len(cq_log'.consumed) :
             LET slot == And_mask(rx_done[k].index, rxq[DpRxq].size_mask) + 1
             IN /\ ndev.port_up
                /\ rxq[DpRxq].info[slot] = rx_done[k].buf
                /\ rxq'[DpRxq].info[slot] = None
                /\ ndev'.pkt_rx_queue[Len(ndev'.pkt_rx_queue)
                                        - (Len(cq_log'.consumed) - k)]
                      = RxExpected(k)
         ]_<<dpVars, objVars, rvVars>>

\* C18 witness: two packets of different lengths, completed out of ring
\* order, were handed to two different receivers
C18_Witness ==
    /\ Len(RxHanded) >= 2
    /\ rx_done[1].index = 1 /\ rx_done[2].index = 0
    /\ rx_done[1].len # rx_done[2].len
    /\ \E j, k \in 1..Len(recv_log) :
          recv_log[j].who # recv_log[k].who

\* C18 witness: both receivers waited, one set() woke both, the first took
\* the only packet and the second returned None
C18_WitnessNone ==
    /\ Len(recv_log) = 1
    /\ last_call = "None"
    /\ Len(cq_log.consumed) = 1
    /\ rv = [r \in Receivers |-> "out"]
    /\ pkt_rx_sync

\* C21: open() on an EQ, CQ, TXQ or RXQ that is open fails with the
\* already-open error, writes no register and changes no object (buffer,
\* size, pointers, ownership table, dispatch map, source ring, handler),
\* no hardware register, no pool and no packet buffer.
C21_ReopenRejected ==
    [][(td_call'.op = "open" /\ IsOpen(td_call'.obj)) =>
          /\ last_call' = "AlreadyOpen"
          /\ reg_access' = 0
          /\ UNCHANGED <<objVars, hwVars, resVars, driver>>
      ]_<<callVars, tdVars, objVars, hwVars, resVars, driver>>

\* C21 witness: open() was called on the open EQ while the CQ was
\* registered in its dispatch map
C21_Witness ==
    /\ td_call = [op |-> "open", obj |-> DpEq]
    /\ last_call = "AlreadyOpen" /\ reg_access = 0
    /\ eq[DpEq].hw_regs /\ eq[DpEq].cq_table # {}

\* C21 witness: open() was called on an open ring, enabled and bound to its CQ
C21_WitnessRing ==
    /\ td_call.op = "open" /\ td_call.obj \in {DpTxq, DpRxq}
    /\ last_call = "AlreadyOpen" /\ reg_access = 0
    /\ (txq[DpTxq].enabled \/ rxq[DpRxq].enabled)
    /\ cq[DpCq].src_ring = td_call.obj

\* C21 witness: open() was called on the open CQ
C21_WitnessCq ==
    /\ td_call = [op |-> "open", obj |-> DpCq]
    /\ last_call = "AlreadyOpen" /\ reg_access = 0
    /\ cq[DpCq].hw_regs

\* the pool an object's open() takes its slot from
PoolOf(obj) ==
    IF obj \in EqObjs THEN eq_res
    ELSE IF obj \in CqObjs THEN cq_res
    ELSE IF obj \in TxqObjs THEN txq_res
    ELSE rxq_res

\* C22: open() of a closed queue object whose pool has no free index ends
\* with the error of alloc(): the pool, every object, every register and
\* the packet buffers are unchanged, no register is accessed, the object is
\* still closed and not in any dispatch map.
C22_PoolExhaustion ==
    [][(/\ td_call'.op = "open"
        /\ ~IsOpen(td_call'.obj)
        /\ PoolOf(td_call'.obj) = <<>>) =>
          /\ last_call' = "IndexError"
          /\ reg_access' = 0
          /\ UNCHANGED <<objVars, hwVars, resVars, driver>>
          /\ \A e \in EqObjs : \A p \in eq'[e].cq_table : p[2] # td_call'.obj
      ]_<<callVars, tdVars, objVars, hwVars, resVars, driver>>

\* C22 witness: open() of the second CQ failed while the first one held the
\* only slot
C22_Witness ==
    /\ td_call.op = "open" /\ td_call.obj \in CqObjs
    /\ last_call = "IndexError"
    /\ cq_res = <<>>
    /\ ~cq[td_call.obj].hw_regs /\ cq[td_call.obj].cqn = None
    /\ \E c \in CqObjs : cq[c].hw_regs /\ cq[c].enabled

\* C22 witness: open() of a ring failed on the empty ring pool
C22_WitnessRing ==
    /\ td_call.op = "open" /\ td_call.obj \in TxqObjs \cup RxqObjs
    /\ last_call = "IndexError"
    /\ ~IsOpen(td_call.obj)

\* an open CQ is in the dispatch map of the EQ it was opened with, under its
\* ID, and in no other EQ's map
CqRegistered(c) ==
    /\ cq[c].eq \in EqObjs
    /\ <<cq[c].cqn, c>> \in eq[cq[c].eq].cq_table
    /\ \A e \in EqObjs \ {cq[c].eq} : \A p \in eq[e].cq_table : p[2] # c

\* close() on an open CQ ends without error, takes the CQ's ID out of its
\* EQ's dispatch map, clears cq.eq and puts the slot back into the pool
CqCloseDetaches ==
    [][(/\ td_call'.op = "close" /\ td_call'.obj \in CqObjs
        /\ cq[td_call'.obj].hw_regs) =>
          LET c == td_call'.obj
          IN /\ last_call' = "ok"
             /\ \A p \in eq'[cq[c].eq].cq_table : p[1] # cq[c].cqn
             /\ cq'[c].eq = NoObj
             /\ ~cq'[c].hw_regs
             /\ cq[c].cqn \in Range(cq_res')
      ]_<<callVars, tdVars, objVars, hwVars, resVars, driver>>

\* C23: an open CQ is registered under its ID in the dispatch map of exactly
\* the EQ passed to open(); close() on an open CQ, whatever happened to its
\* EQ, removes the ID from that map, clears the CQ's EQ reference and
\* returns the slot.
C23_CqBinding ==
    /\ [](\A c \in CqObjs : cq[c].hw_regs => CqRegistered(c))
    /\ CqCloseDetaches

\* the state of an EQ apart from its dispatch map
EqSansTable(e) == [eq[e] EXCEPT !.cq_table = {}]

\* a step of NetDev.open() or NetDev.close(): the call itself or a later
\* stage of the bring-up
DevLifecycleStep ==
    \/ dev_call' \in {"open", "close"}
    \/ ndev'.open_pc # ndev.open_pc

\* no step of NetDev.open() or NetDev.close() changes an EQ's slot, IRQ,
\* size, buffer, consumer pointer or registers, or the EQ pool
C24_EqFrame ==
    [][DevLifecycleStep =>
          /\ \A e \in EqObjs : EqSansTable(e)' = EqSansTable(e)
          /\ hw_eq' = hw_eq
          /\ eq_res' = eq_res
      ]_<<devVars, dpVars, objVars, hwVars, resVars>>

\* after close() of a device that was up, no EQ's dispatch map holds the
\* device's CQ
C24_CloseDetaches ==
    [][(dev_call' = "close" /\ ndev.port_up) =>
          \A e \in EqObjs : \A p \in eq'[e].cq_table : p[2] # DpCq
      ]_<<devVars, dpVars, objVars, hwVars, resVars>>

\* C24: NetDev.open() and NetDev.close() leave every EQ's slot index, IRQ,
\* buffer and consumer pointer alone; they change only the dispatch map,
\* which after close() holds no entry for a CQ of the device.
C24_EqOutlivesDevice == C24_EqFrame /\ C24_CloseDetaches

\* positions of the blocks that match a type and, if one is given, a version
FindMatches(blocks, rb_type, version) ==
    {k \in 1..Len(blocks) :
        /\ blocks[k].type = rb_type
        /\ version # NoVersion => blocks[k].version = version}

\* the nth (0-based) smallest member of a set of positions, NotFound if
\* there are not that many
NthOf(S, nth) ==
    IF \E k \in S : Cardinality({j \in S : j < k}) = nth
    THEN CHOOSE k \in S : Cardinality({j \in S : j < k}) = nth
    ELSE NotFound

\* C25: find(type, version, nth) returns the block at position nth among the
\* blocks whose type is `type` and, when a version is given, whose version
\* is that version, in discovery order, and not-found when fewer than nth+1
\* blocks match; for every version value, 0 included.
C25_FindNth ==
    rb_find.called =>
        rb_find.ret = NthOf(FindMatches(rb_blocks, rb_find.type, rb_find.version),
                            rb_find.index)

\* C25 for the calls whose version is None or not 0
C25_FindNthNonZero ==
    (rb_find.called /\ rb_find.version # 0) =>
        rb_find.ret = NthOf(FindMatches(rb_blocks, rb_find.type, rb_find.version),
                            rb_find.index)

\* the ring state the claim is about
RingState(t) == <<txq[t].prod_ptr, txq[t].cons_ptr, txq[t].info>>

\* a step that changes the pointers or the ownership table of an open ring
RingWritten(t) ==
    /\ txq[t].hw_regs /\ txq'[t].hw_regs
    /\ RingState(t)' # RingState(t)

\* the step is start_xmit on the ring
OwnSubmit(t) == td_call' = [op |-> "start_xmit", obj |-> t]

\* the step is part of the handler of the CQ bound to the ring
BoundHandler(t) ==
    /\ td_call'.op = "process_eq"
    /\ LET e == eq[DpEq]
           entry == e.buf[And_mask(pe'.eq_cons_ptr, e.size_mask) + 1]
           c == IF pe.pc = "handler_wait" THEN pe.cq ELSE Eq_lookup(e, entry.src)
       IN /\ c \in CqObjs
          /\ txq[t].cq = c
          /\ cq[c].src_ring = t

\* the step is the ring's own free_buf or read_cons_ptr
OwnDrain(t) ==
    /\ td_call'.op \in {"free_buf", "read_cons_ptr"}
    /\ td_call'.obj = t

C26_WitnessClose ==
    /\ txq[DpTxq].hw_regs /\ txq[DpTxq].prod_ptr > txq[DpTxq].cons_ptr
    /\ td_call = [op |-> "close", obj |-> "ndev0"]
    /\ last_call = "AttributeError"

\* C26 witness: free_buf has drained the open ring
C26_WitnessFreeBuf ==
    /\ txq[DpTxq].hw_regs /\ txq[DpTxq].prod_ptr > 0
    /\ txq[DpTxq].cons_ptr = txq[DpTxq].prod_ptr
    /\ td_call = [op |-> "free_buf", obj |-> DpTxq]
    /\ \A i \in 1..txq[DpTxq].size : txq[DpTxq].info[i] = None

\* the ring the suspended handler works on
HandlerRunRing == IF pe.tx THEN txq[pe.ring] ELSE rxq[pe.ring]

\* the ring of the device
DpRing == IF q_kind = "tx" THEN txq[DpTxq] ELSE rxq[DpRxq]

\* the ownership-table slot of ring position p
SlotAt(ring, p) == ring.info[And_mask(p, ring.size_mask) + 1]

\* C27: a completion-processing run never decreases cons_ptr and never moves
\* it past prod_ptr; it advances cons_ptr over exactly the maximal run of
\* empty slots that starts at the old cons_ptr and stops at the first slot
\* still owned, so a descriptor the hardware has not completed holds
\* cons_ptr back.
C27_GaplessAdvance ==
    /\ [][(pe.pc = "handler_wait" /\ pe'.pc = "arm_wait") =>
             LET ring == HandlerRunRing
                 new == IF pe.tx THEN txq'[pe.ring].cons_ptr
                        ELSE rxq'[pe.ring].cons_ptr
             IN /\ new >= ring.cons_ptr
                /\ new <= ring.prod_ptr
                /\ \A p \in ring.cons_ptr..(new - 1) : SlotAt(ring, p) = None
                /\ new # ring.prod_ptr => SlotAt(ring, new) # None
         ]_<<dpVars, objVars>>
    /\ [][pe'.pc \in {"idle", "dead", "write_cons"}
              \/ (pe.pc # "handler_wait" /\ pe'.pc = "arm_wait") =>
             DpRing'.cons_ptr = DpRing.cons_ptr
         ]_<<dpVars, objVars>>
    /\ [](DpRing.hw_regs =>
             /\ DpRing.cons_ptr <= DpRing.prod_ptr
             /\ \A d \in hw_pend : DpRing.cons_ptr <= d)

\* C27 witness: a run has ended with cons_ptr held at a slot still owned
\* while a later descriptor is already retired
C27_Witness ==
    /\ pe.pc = "arm_wait" /\ pe.arm # None
    /\ DpRing.cons_ptr < DpRing.prod_ptr
    /\ DpRing.cons_ptr \in hw_pend
    /\ SlotAt(DpRing, DpRing.cons_ptr) # None
    /\ \E p \in (DpRing.cons_ptr + 1)..(DpRing.prod_ptr - 1) :
          SlotAt(DpRing, p) = None

\* C27 witness: a run has advanced cons_ptr over two slots at once and
\* stopped at an owned one
C27_WitnessRun ==
    /\ pe.pc = "arm_wait"
    /\ DpRing.cons_ptr >= 2
    /\ DpRing.cons_ptr < DpRing.prod_ptr
    /\ hw_cq[cq[DpCq].cqn].cons_ptr = DpRing.cons_ptr
    /\ Len(cq_log.consumed) = 2 /\ cq_log.consumed[1] > cq_log.consumed[2]

\* the EQ slot of ring position p, and whether it holds a produced event
EqEntry(p) == eq[DpEq].buf[And_mask(p, eq[DpEq].size_mask) + 1]
EqValid(p) == EqEntry(p).phase # BitTest(p, eq[DpEq].size)

\* where process_eq looks next: at self.cons_ptr when the call starts, one
\* past the event just dispatched otherwise
ScanFrom == IF pe.pc = "idle" THEN eq[DpEq].cons_ptr ELSE pe.eq_cons_ptr + 1

\* a step of the scan loop of process_eq
ScanStep == pe.pc \in {"idle", "arm_wait"} /\ pe' # pe

\* C28: within one process_eq call the events are taken in ring order, none
\* skipped and none twice; an event of another type is consumed without
\* dispatch; a completion event is dispatched to the handler of the CQ
\* registered under its source, and that CQ's arm command is written only
\* after the handler has returned; the consumer pointer is set, and written
\* to the hardware, once, after the scan has reached a slot that is not
\* produced, to the old value plus the number of events consumed.
C28_DispatchOrder ==
    /\ [][ScanStep =>
             LET q == pe'.eq_cons_ptr
             IN /\ q >= ScanFrom
                /\ \A p \in ScanFrom..(q - 1) : EqValid(p) /\ EqEntry(p).type # 0
                /\ pe'.pc \in {"write_cons", "handler_wait", "arm_wait", "dead"}
                /\ pe'.pc = "write_cons" =>
                      /\ ~EqValid(q)
                      /\ eq'[DpEq].cons_ptr = q
                      /\ UNCHANGED <<cq, txq, rxq, driver, cq_log>>
                /\ pe'.pc # "write_cons" =>
                      /\ EqValid(q) /\ EqEntry(q).type = 0
                      /\ eq'[DpEq].cons_ptr = eq[DpEq].cons_ptr
                /\ pe'.pc \in {"handler_wait", "arm_wait"} =>
                      /\ <<EqEntry(q).src, pe'.cq>> \in eq[DpEq].cq_table
                      /\ \A c \in CqObjs \ {pe'.cq} : cq'[c] = cq[c]
                /\ UNCHANGED hw_eq
         ]_<<objVars, hwVars, dpVars>>
    /\ [][(pe.pc = "handler_wait" /\ pe' # pe) =>
             /\ pe'.pc = "arm_wait"
             /\ pe'.eq_cons_ptr = pe.eq_cons_ptr /\ pe'.cq = pe.cq
             /\ hw_cq'[pe.cqn].arm = hw_cq[pe.cqn].arm
             /\ UNCHANGED <<eq, hw_eq>>
         ]_<<objVars, hwVars, dpVars>>
    /\ [][(pe.pc = "arm_wait" /\ pe' # pe /\ pe.arm # None) =>
             hw_cq'[pe.arm].arm
         ]_<<objVars, hwVars, dpVars>>
    /\ [][(eq[DpEq].hw_regs /\ eq'[DpEq].hw_regs
           /\ hw_eq'[eq[DpEq].eqn].cons_ptr # hw_eq[eq[DpEq].eqn].cons_ptr) =>
             /\ pe.pc = "write_cons" /\ pe'.pc = "idle"
             /\ hw_eq'[eq[DpEq].eqn].cons_ptr = eq[DpEq].cons_ptr % 65536
         ]_<<objVars, hwVars, dpVars>>
    /\ [][(pe.pc = "write_cons" /\ pe' # pe) =>
             /\ pe'.pc = "idle"
             /\ hw_eq'[eq[DpEq].eqn].cons_ptr = pe.eq_cons_ptr % 65536
             /\ eq'[DpEq].cons_ptr = pe.eq_cons_ptr
         ]_<<objVars, hwVars, dpVars>>

\* C28 witness: one call has dispatched a completion event, passed an event
\* of the other type and found the EQ empty; the hardware pointer is still
\* the old one
C28_Witness ==
    /\ pe = [pc |-> "write_cons", eq_cons_ptr |-> 2]
    /\ eq[DpEq].cons_ptr = 2
    /\ hw_eq[eq[DpEq].eqn].cons_ptr = 0
    /\ EqEntry(0).type = 0 /\ EqEntry(1).type # 0

\* C28 witness: one call has run the handler of the first CQ for the first
\* event and then that of the other CQ for the second
C28_WitnessTwoCqs ==
    /\ pe.pc = "arm_wait" /\ pe.cq = OtherCq /\ pe.eq_cons_ptr = 1
    /\ pe.arm = cq[OtherCq].cqn
    /\ EqEntry(0).type = 0 /\ EqEntry(0).src = cq[DpCq].cqn
    /\ eq[DpEq].cons_ptr = 0
    /\ hw_eq[eq[DpEq].eqn].cons_ptr = 0

\* the rings of the device are open and enabled, in the objects and in
\* the hardware
OpRingsEnabled ==
    /\ rxq[OpRxq].hw_regs /\ rxq[OpRxq].enabled /\ hw_rxq[rxq[OpRxq].index].enable
    /\ txq[OpTxq].hw_regs /\ txq[OpTxq].enabled /\ hw_txq[txq[OpTxq].index].enable

\* flow-control channel 0 is configured and enabled
OpChannelReady ==
    /\ bu.ch_dest # None /\ bu.ch_pkt_budget # None /\ bu.ch_pkt_limit # None
    /\ fc_req.db[0] # None /\ fc_req.dl[0] # None
    /\ bu.ch_en

\* the CQ is open and armed
OpCqArmed(c) == cq[c].hw_regs /\ hw_cq[cq[c].cqn].arm

\* C29: in NetDev.open() a CQ is opened and armed before its ring is
\* opened; all rings are enabled before port TX; port TX before a TX queue
\* is enabled in the scheduler; flow-control channel 0 is configured and
\* enabled before the scheduler is enabled; port RX only after the
\* scheduler is enabled; port_up only after the final read; and start_xmit
\* on a device not yet up does nothing.
C29_BringUpOrder ==
    /\ [][/\ (~rxq[OpRxq].hw_regs /\ rxq'[OpRxq].hw_regs) => OpCqArmed(rxq'[OpRxq].cq)
          /\ (~txq[OpTxq].hw_regs /\ txq'[OpTxq].hw_regs) => OpCqArmed(txq'[OpTxq].cq)
          /\ bu'.port_tx # bu.port_tx => OpRingsEnabled
          /\ bu'.sched_q # bu.sched_q => bu.port_tx = MQNIC_PORT_TX_CTRL_EN
          /\ (sch_view'[OpView] # sch_view[OpView] /\ sch_view[OpView] = "off")
                => OpChannelReady /\ bu.sched_q = {txq[OpTxq].index}
          /\ sch_ctrl' # sch_ctrl => OpChannelReady
          /\ bu'.port_rx # bu.port_rx => sch_ctrl = 1 /\ sch_view[OpView] = "on"
          /\ ndev'.port_up # ndev.port_up =>
                /\ bu.barrier /\ bu.port_rx = MQNIC_PORT_RX_CTRL_EN
                /\ bu.port_tx = MQNIC_PORT_TX_CTRL_EN
                /\ sch_ctrl = 1 /\ OpChannelReady /\ OpRingsEnabled
          /\ ~ndev.port_up => UNCHANGED <<hw_pend, xm>>
         ]_<<buVars, objVars, hwVars, dpVars, devVars, schVars, fcVars>>
    /\ [](~ndev.port_up => hw_pend = {} /\ txq[OpTxq].prod_ptr = 0)

\* C29 witness: the bring-up has run to its end and a packet was submitted
C29_Witness ==
    /\ bu.pc = "up" /\ ndev.port_up
    /\ bu.port_rx = MQNIC_PORT_RX_CTRL_EN /\ bu.barrier
    /\ sch_ctrl = 1 /\ OpChannelReady /\ OpRingsEnabled
    /\ txq[OpTxq].prod_ptr = 1 /\ rxq[OpRxq].prod_ptr > 0

\* C29 witness: start_xmit was called and returned while the bring-up was
\* suspended between port TX and the scheduler
C29_WitnessPartial ==
    /\ bu.pc = "sched_wait" /\ bu.port_tx = MQNIC_PORT_TX_CTRL_EN
    /\ sch_ctrl = 0
    /\ dev_call = "step" /\ last_call = "ok" /\ reg_access = 0
    /\ txq[OpTxq].prod_ptr = 0

\* a run of the CQ handler returned in this step: process_eq goes on to
\* cq.arm(), either from the handler's suspension or, when the handler
\* found the port down, in the step that called it
HandlerReturned == pe' # pe /\ pe'.pc = "arm_wait"

\* the ring's notification is raised and no submitter is left waiting
SubmittersWoken ==
    /\ txq'[DpTxq].clean_event
    /\ \A s \in Submitters : xm'[s] # "wait"

\* C30 as stated: every run of the TX completion handler raises the
\* ring's space-available notification and wakes the submitters suspended
\* on the ring.
C30_WakeEveryRun ==
    [][HandlerReturned => SubmittersWoken]_<<dpVars, objVars, devVars>>

\* C30: every run of the TX completion handler that found the port up and
\* returned raises the ring's space-available notification and wakes the
\* submitters suspended on the ring, whether or not the ring's cons_ptr
\* moved; a run that found the port down leaves the notification and the
\* submitters as they were.
C30_WakeWhenUp ==
    [][/\ (HandlerReturned /\ pe.pc = "handler_wait") => SubmittersWoken
       /\ (HandlerReturned /\ pe.pc # "handler_wait") =>
             /\ ~ndev.port_up
             /\ UNCHANGED <<txq, xm>>
      ]_<<dpVars, objVars, devVars>>

\* C30 witness: a submitter that waited on the full ring was woken by a
\* handler run that retired nothing, the ring is still full
C30_Witness ==
    /\ pe.pc = "arm_wait"
    /\ txq[DpTxq].hw_regs /\ txq[DpTxq].clean_event
    /\ ~xmit_has_space(txq[DpTxq])
    /\ txq[DpTxq].cons_ptr = 0
    /\ xm[1] = "woken"

\* C30 witness: a handler run found the port down and returned with the
\* submitter still waiting
C30_WitnessDown ==
    /\ pe.pc = "arm_wait" /\ ~ndev.port_up
    /\ ~txq[DpTxq].clean_event
    /\ xm[1] = "wait"

\* C31: read_cons_ptr with the hardware's 16-bit value h takes the counter
\* c to c + ((h - c) mod 2^16): the result is congruent to h, lies in
\* c .. c + 2^16 - 1, and is the hardware's count whenever the hardware was
\* fewer than 2^16 entries ahead of the counter.
C31_Reconcile ==
    rc.reads > 0 =>
        LET h == rc.val.hi
        IN /\ h \in 0..65535
           /\ rc.c = rc.prev + ((h - rc.prev) % 65536)
           /\ rc.c % 65536 = h
           /\ rc.prev <= rc.c /\ rc.c < rc.prev + 65536
           /\ (rc.lag < 65536 => rc.c = rc.prev + rc.lag)

\* C31 witness: the counter followed the hardware across the 16-bit wrap,
\* the register showing a smaller value than the counter's low 16 bits
C31_Witness ==
    /\ rc.reads = 2
    /\ rc.prev = 65535 /\ rc.val.hi = 4 /\ rc.c = 65540
    /\ rc.c = rc.hw

\* C32: a receiver woken from the packet-available wait finds a packet
\* before it takes one, so every recv() that waited returns a packet; and
\* with two callers suspended in recv() one published packet lets exactly
\* one of them go on, the other stays waiting.
C32_RecvRecheck ==
    /\ [][\A r \in Receivers :
            (rv[r] = "woken" /\ rv'[r] = "out") =>
                /\ ndev.pkt_rx_queue # <<>>
                /\ Len(recv_log') = Len(recv_log) + 1
                /\ last_call' = "ok"
         ]_<<rvVars, dpVars, callVars>>
    /\ [][((\A r \in Receivers : rv[r] = "wait")
             /\ Len(ndev'.pkt_rx_queue) = Len(ndev.pkt_rx_queue) + 1) =>
                \E r \in Receivers : rv'[r] = "wait"
         ]_<<rvVars, dpVars, callVars>>

\* C32, the part that holds: a recv() that finds a packet at its call
\* returns it without waiting, and a woken receiver that finds the queue
\* non-empty returns its head
C32_RecvFirst ==
    [][\A r \in Receivers :
         (rv'[r] = "out" /\ rv[r] = "woken" /\ ndev.pkt_rx_queue # <<>>) =>
             /\ recv_log' = Append(recv_log, [who |-> r, skb |-> Head(ndev.pkt_rx_queue)])
             /\ ndev'.pkt_rx_queue = Tail(ndev.pkt_rx_queue)
      ]_<<rvVars, dpVars, callVars>>

\* C33: with the port up, the hardware completing every posted descriptor,
\* the handler called for every completion and every ready task run, every
\* start_xmit call suspended on a full ring resumes, writes its descriptor
\* and returns.
C33_XmitLive ==
    \A s \in Submitters : (xm[s] = "wait") ~> (xm[s] = "out")

\* C33, with an end to the calls of start_xmit: every suspended call
\* returns, and it returns by writing its descriptor
C33_XmitLiveFinite ==
    /\ \A s \in Submitters :
          (xm[s] = "wait" /\ lv.budget # LvUnbounded) ~> (xm[s] = "out")
    /\ [][\A s \in Submitters :
            (xm[s] = "woken" /\ xm'[s] = "out") =>
                txq'[DpTxq].prod_ptr = txq[DpTxq].prod_ptr + 1
         ]_<<devVars, objVars, lv>>

\* the slot start_xmit would write next
SubmitSlot(ring) == ring.info[And_mask(ring.prod_ptr, ring.size_mask) + 1]

\* the slots of the ring that lie in [cons_ptr, prod_ptr)
RingWindow(ring) ==
    {And_mask(p, ring.size_mask) : p \in ring.cons_ptr..(ring.prod_ptr - 1)}

\* C34: the assertion of start_xmit, that the ownership-table entry at
\* prod_ptr & size_mask is empty, never fails: no call ends in
\* AssertionError, whenever the ring has space the slot at prod_ptr is
\* empty, and every owned slot lies between cons_ptr and prod_ptr.
C34_SubmitSlotFree ==
    LET ring == txq[DpTxq]
    IN /\ last_call # "AssertionError"
       /\ lv.pc # "dead"
       /\ ring.hw_regs =>
             /\ xmit_has_space(ring) => SubmitSlot(ring) = None
             /\ \A i \in 0..(ring.size - 1) :
                   ring.info[i + 1] # None => i \in RingWindow(ring)
             /\ ring.prod_ptr - ring.cons_ptr <= ring.full_size

\* C34 witness: the second submitter's call returned after writing a slot
\* for the second time round the ring, the first submitter made ready and
\* not yet run
C34_Witness ==
    LET ring == txq[DpTxq]
    IN /\ ring.hw_regs /\ ring.prod_ptr > ring.size
       /\ ring.info[And_mask(ring.prod_ptr - 1, ring.size_mask) + 1] # None
       /\ xm[2] = "out" /\ last_call = "ok" /\ reg_access = 1
       /\ xm[1] = "woken"

\* C34 witness: completions out of order left an empty slot inside the
\* window, the oldest descriptor still owned
C34_WitnessHole ==
    LET ring == txq[DpTxq]
    IN /\ ring.hw_regs /\ ring.prod_ptr - ring.cons_ptr = ring.full_size
       /\ ring.info[And_mask(ring.cons_ptr, ring.size_mask) + 1] # None
       /\ ring.info[And_mask(ring.prod_ptr - 1, ring.size_mask) + 1] = None
       /\ ring.cons_ptr > 0

\* the buffers the ring owns
RingOwned(ring) == {ring.info[i] : i \in 1..ring.size} \ {None}

\* C35: free_buf(), called in any reachable state of the ring, ends
\* without error, returns every buffer the ring still owns to the packet
\* pool exactly once and leaves the ring empty with an empty ownership
\* table, also when completions out of order have left empty slots between
\* cons_ptr and prod_ptr.
C35_DrainOnTeardown ==
    [][td_call'.op = "free_buf" =>
          LET ring == txq[DpTxq]
              after == txq'[DpTxq]
          IN /\ last_call' = "ok"
             /\ after.cons_ptr = after.prod_ptr
             /\ \A i \in 1..after.size : after.info[i] = None
             /\ Len(driver'.free_packets) =
                    Len(driver.free_packets) + Cardinality(RingOwned(ring))
             /\ Range(driver'.free_packets) =
                    Range(driver.free_packets) \cup RingOwned(ring)
      ]_<<tdVars, objVars, driver, callVars>>

\* C35, for a ring whose slots between cons_ptr and prod_ptr are all owned:
\* free_buf() returns them in ring order and leaves the ring empty
C35_DrainFullWindow ==
    [][(td_call'.op = "free_buf"
          /\ \A p \in txq[DpTxq].cons_ptr..(txq[DpTxq].prod_ptr - 1) :
                txq[DpTxq].info[And_mask(p, txq[DpTxq].size_mask) + 1] # None) =>
          LET ring == txq[DpTxq]
              after == txq'[DpTxq]
          IN /\ last_call' = "ok"
             /\ after.cons_ptr = after.prod_ptr
             /\ \A i \in 1..after.size : after.info[i] = None
             /\ Len(driver'.free_packets) =
                    Len(driver.free_packets) + Cardinality(RingOwned(ring))
      ]_<<tdVars, objVars, driver, callVars>>

\* ---- C36 ----

\* every call of close() that was made has returned
OcAllReturned == \A k \in OcCallers : oc.pc[k] \notin {"out", "write"}

\* C36: when close() was called on an open EQ, CQ, TXQ or RXQ while an
\* earlier close() of it was suspended at its disable write, every call
\* returns without error and the pool holds each of its slots once and
\* nothing else
C36_OverlappingClose ==
    (oc.overlapped /\ OcAllReturned) =>
        /\ \A k \in OcCallers : oc.pc[k] = "ok"
        /\ OcPool = Resource_init(OcPoolCount)

\* ---- C37 ----

\* every call of open() has returned
OoAllReturned == \A k \in OoCallers : oo.pc[k] \in {"up", "ok", "IndexError"}

\* scheduler ports and CQ slots taken from the interface
OoPortsTaken == oo.sched_ports - Len(oo.free_sched_ports)
OoCqsTaken == OoQueueCount - Len(oo.cq_res)

\* C37: when open() was called while an earlier open() of the device was
\* suspended, then after both have returned the device has taken one
\* scheduler port and holds one RX ring and one TX ring, each with its CQ
C37_OverlappingOpen ==
    (oo.overlapped /\ OoAllReturned) =>
        /\ OoPortsTaken = 1
        /\ Len(oo.rxq) = 1 /\ Len(oo.txq) = 1
        /\ OoCqsTaken = 2

\* ---- C38 ----

\* the position of the entry process_eq examines next
PeNextPtr ==
    Eq_skip(eq[DpEq], IF pe.pc = "idle" THEN eq[DpEq].cons_ptr
                      ELSE pe.eq_cons_ptr + 1)
PeNextEntry == eq[DpEq].buf[And_mask(PeNextPtr, eq[DpEq].size_mask) + 1]

\* process_eq is at the top of its loop with a completion event before it
\* whose CQ number is in the dispatch map
PeDispatches ==
    /\ pe.pc \in {"idle", "arm_wait"} /\ eq[DpEq].hw_regs
    /\ phase_valid(PeNextEntry, PeNextPtr, eq[DpEq].size)
    /\ Eq_lookup(eq[DpEq], PeNextEntry.src) # "KeyError"

\* C38: a completion event that process_eq consumes for a CQ number in the
\* dispatch map finds a CQ with a source ring and a handler bound, also
\* when the event was queued before the ring was closed
C38_BoundDispatch ==
    PeDispatches =>
        LET c == Eq_lookup(eq[DpEq], PeNextEntry.src)
        IN cq[c].handler # NoObj /\ cq[c].src_ring # NoObj

\* ---- C39 ----

\* the entries of the ownership table that a step gives a buffer to were
\* empty before the step
RefillIntoEmpty ==
    Len(RxRing'.info) = Len(RxRing.info) =>
        \A i \in 1..Len(RxRing.info) :
            RxRing'.info[i] \notin {None, RxRing.info[i]} => RxRing.info[i] = None

\* C39: refill_buffers() writes only entries of the ownership table that
\* are empty, and 0 <= prod_ptr - cons_ptr <= size in every state of an
\* RXQ, whatever the order in which the posted descriptors complete
C39_RefillEmptySlots ==
    /\ [](RxRing.hw_regs =>
            /\ 0 <= RxRing.prod_ptr - RxRing.cons_ptr
            /\ RxRing.prod_ptr - RxRing.cons_ptr <= RxRing.size)
    /\ [][RefillIntoEmpty]_rxq

\* the hardware completed a later descriptor before an earlier one
RxOutOfOrder ==
    \E i, j \in 1..Len(cq_log.produced) :
        i < j /\ cq_log.produced[i] > cq_log.produced[j]

\* C39 witness: after out-of-order completions the handler's refill posted
\* buffers round the end of the ring, and the ring is full again
C39_Witness ==
    /\ RxOutOfOrder
    /\ dp_last.after = "process_rx_cq" /\ dp_last.writes = 1
    /\ dp_last.allocs >= REFILL_MIN_MISSING
    /\ RxRing.prod_ptr > RxRing.size
    /\ RxRing.prod_ptr - RxRing.cons_ptr = RxRing.size

\* C39 witness: a hole, an empty entry inside the window behind an owned one
C39_WitnessHole ==
    /\ RxRing.hw_regs
    /\ RxRing.info[And_mask(RxRing.cons_ptr, RxRing.size_mask) + 1] # None
    /\ \E p \in RxRing.cons_ptr..(RxRing.prod_ptr - 1) :
           RxRing.info[And_mask(p, RxRing.size_mask) + 1] = None

\* ---- C40 ----

\* C40: a disable() on a scheduler whose enable count is 0 leaves the count
\* at 0 and does not write the hardware; the count is never negative; and
\* so an enable() that leaves the count at 1 or below is the transition
\* from 0 to 1 and has enabled the hardware
C40_UnmatchedDisable ==
    /\ sch_enable_count >= 0
    /\ (sch_last.op = "disable" /\ sch_last.from = 0) =>
            (sch_last.to = 0 /\ ~sch_last.wrote)
    /\ (sch_last.op = "enable" /\ sch_last.to <= 1) =>
            (sch_last.from = 0 /\ sch_last.wrote)

vars == <<poolVars, driver, resVars, objVars, hwVars, callVars, q_kind, rpVars, xVars, dpVars>>

qVars == <<driver, resVars, objVars, hwVars, callVars, q_kind>>

\* the queue objects as constructed and never opened
QueuesIdle == ObjInit /\ DriverInit /\ q_kind = "tx"

\* ---- the stand-alone resource pool ----

InitPool == PoolInit /\ QueuesIdle /\ RingFnIdle /\ XIdle /\ DpInit

NextPool ==
    \/ PoolAlloc /\ UNCHANGED <<qVars, rpVars, xVars, dpVars>>
    \/ PoolAllocFail /\ UNCHANGED <<qVars, rpVars, xVars, dpVars>>
    \/ PoolFree /\ UNCHANGED <<qVars, rpVars, xVars, dpVars>>

SpecPool == InitPool /\ [][NextPool]_vars

\* ---- open()/close() sequences on the queue objects ----

InitQueues == PoolIdle /\ QueuesInit /\ RingFnIdle /\ XIdle /\ DpInit

NextQueues ==
    \/ QEqOpen /\ UNCHANGED <<q_kind, poolVars, rpVars, xVars, dpVars>>
    \/ QEqClose /\ UNCHANGED <<q_kind, poolVars, rpVars, xVars, dpVars>>
    \/ QCqOpen /\ UNCHANGED <<q_kind, poolVars, rpVars, xVars, dpVars>>
    \/ QCqClose /\ UNCHANGED <<q_kind, poolVars, rpVars, xVars, dpVars>>
    \/ QTxqOpen /\ UNCHANGED <<q_kind, poolVars, rpVars, xVars, dpVars>>
    \/ QTxqClose /\ UNCHANGED <<q_kind, poolVars, rpVars, xVars, dpVars>>
    \/ QRxqOpen /\ UNCHANGED <<q_kind, poolVars, rpVars, xVars, dpVars>>
    \/ QRxqClose /\ UNCHANGED <<q_kind, poolVars, rpVars, xVars, dpVars>>

SpecQueues == InitQueues /\ [][NextQueues]_vars

\* ---- empty() and full() on a ring in use ----

InitRingFn == PoolIdle /\ QueuesIdle /\ RingFnInit /\ XIdle /\ DpInit

NextRingFn ==
    \/ RingFnProduce /\ UNCHANGED <<poolVars, qVars, xVars, dpVars>>
    \/ RingFnConsume /\ UNCHANGED <<poolVars, qVars, xVars, dpVars>>
    \/ RingFnCall /\ UNCHANGED <<poolVars, qVars, xVars, dpVars>>

SpecRingFn == InitRingFn /\ [][NextRingFn]_vars

\* ---- register block enumeration ----

InitChain == PoolIdle /\ QueuesIdle /\ RingFnIdle /\ RbInit /\ FcIdle /\ SchedInit /\ DpInit /\ YIdle

NextChain ==
    \/ RbCall /\ UNCHANGED <<poolVars, qVars, rpVars, fcVars, schVars, dpVars, yVars>>
    \/ RbStep /\ UNCHANGED <<poolVars, qVars, rpVars, fcVars, schVars, dpVars, yVars>>

\* the coroutine is awaited by its caller and every register read completes
SpecChain == InitChain /\ [][NextChain]_vars /\ WF_rbVars(RbStep)

\* ---- flow-control budget and limit registers ----

InitFc == PoolIdle /\ QueuesIdle /\ RingFnIdle /\ RbIdle /\ FcInit /\ SchedInit /\ DpInit /\ YIdle

NextFc ==
    \/ FcSetBudget /\ UNCHANGED <<poolVars, qVars, rpVars, rbVars, schVars, dpVars, yVars>>
    \/ FcGetBudget /\ UNCHANGED <<poolVars, qVars, rpVars, rbVars, schVars, dpVars, yVars>>
    \/ FcSetLimit /\ UNCHANGED <<poolVars, qVars, rpVars, rbVars, schVars, dpVars, yVars>>
    \/ FcGetLimit /\ UNCHANGED <<poolVars, qVars, rpVars, rbVars, schVars, dpVars, yVars>>

SpecFc == InitFc /\ [][NextFc]_vars

\* ---- scheduler enable count ----

InitSched == PoolIdle /\ QueuesIdle /\ RingFnIdle /\ RbIdle /\ FcIdle /\ SchedInit /\ DpInit /\ YIdle

NextSched ==
    \/ SchedEnableCall /\ UNCHANGED <<poolVars, qVars, rpVars, rbVars, fcVars, dpVars, yVars>>
    \/ SchedEnableResume /\ UNCHANGED <<poolVars, qVars, rpVars, rbVars, fcVars, dpVars, yVars>>
    \/ SchedDisableCall /\ UNCHANGED <<poolVars, qVars, rpVars, rbVars, fcVars, dpVars, yVars>>
    \/ SchedDisableResume /\ UNCHANGED <<poolVars, qVars, rpVars, rbVars, fcVars, dpVars, yVars>>
    \/ SchedBusWrite /\ UNCHANGED <<poolVars, qVars, rpVars, rbVars, fcVars, dpVars, yVars>>

SpecSched == InitSched /\ [][NextSched]_vars

\* ---- transmit data path ----

InitTx ==
    /\ PoolIdle /\ RingFnIdle /\ XIdle
    /\ ObjInit /\ DriverInit /\ q_kind = "tx" /\ DpInit

NextTx ==
    \/ DpOpenEq /\ UNCHANGED <<q_kind, poolVars, rpVars, xVars>>
    \/ DpOpenCq /\ UNCHANGED <<q_kind, poolVars, rpVars, xVars>>
    \/ DpArmCq /\ UNCHANGED <<q_kind, poolVars, rpVars, xVars>>
    \/ DpOpenTxq /\ UNCHANGED <<q_kind, poolVars, rpVars, xVars>>
    \/ DpEnableTxq /\ UNCHANGED <<q_kind, poolVars, rpVars, xVars>>
    \/ DpPortUp /\ UNCHANGED <<q_kind, poolVars, rpVars, xVars>>
    \/ DpStartXmit /\ UNCHANGED <<q_kind, poolVars, rpVars, xVars>>
    \/ DpHwComplete /\ UNCHANGED <<q_kind, poolVars, rpVars, xVars>>
    \/ DpHwEvent /\ UNCHANGED <<q_kind, poolVars, rpVars, xVars>>
    \/ DpProcessEq /\ UNCHANGED <<q_kind, poolVars, rpVars, xVars>>
    \/ DpHandlerResume /\ UNCHANGED <<q_kind, poolVars, rpVars, xVars>>
    \/ DpProcessEqEnd /\ UNCHANGED <<q_kind, poolVars, rpVars, xVars>>

SpecTx == InitTx /\ [][NextTx]_vars

\* ---- receive data path ----

InitRx ==
    /\ PoolIdle /\ RingFnIdle /\ XIdle
    /\ ObjInit /\ DriverInit /\ q_kind = "rx" /\ DpInit

NextRx ==
    \/ DpOpenEq /\ UNCHANGED <<q_kind, poolVars, rpVars, xVars>>
    \/ DpOpenCq /\ UNCHANGED <<q_kind, poolVars, rpVars, xVars>>
    \/ DpArmCq /\ UNCHANGED <<q_kind, poolVars, rpVars, xVars>>
    \/ DpOpenRxq /\ UNCHANGED <<q_kind, poolVars, rpVars, xVars>>
    \/ DpEnableRxq /\ UNCHANGED <<q_kind, poolVars, rpVars, xVars>>
    \/ DpPortUp /\ UNCHANGED <<q_kind, poolVars, rpVars, xVars>>
    \/ DpHwRxComplete /\ UNCHANGED <<q_kind, poolVars, rpVars, xVars>>
    \/ DpHwEvent /\ UNCHANGED <<q_kind, poolVars, rpVars, xVars>>
    \/ DpProcessEq /\ UNCHANGED <<q_kind, poolVars, rpVars, xVars>>
    \/ DpHandlerResume /\ UNCHANGED <<q_kind, poolVars, rpVars, xVars>>
    \/ DpProcessEqEnd /\ UNCHANGED <<q_kind, poolVars, rpVars, xVars>>

SpecRx == InitRx /\ [][NextRx]_vars

\* ---- teardown calls in any order on one object of each kind ----

InitTeardown ==
    /\ PoolIdle /\ RingFnIdle /\ XIdle /\ DpInit
    /\ QueuesInit

NextTeardown ==
    \/ TdEqOpen /\ UNCHANGED <<q_kind, poolVars, rpVars, zVars, dpVars, devVars, irqVars, rvVars, buVars, wVars>>
    \/ TdEqClose /\ UNCHANGED <<q_kind, poolVars, rpVars, zVars, dpVars, devVars, irqVars, rvVars, buVars, wVars>>
    \/ TdEqArm /\ UNCHANGED <<q_kind, poolVars, rpVars, zVars, dpVars, devVars, irqVars, rvVars, buVars, wVars>>
    \/ TdCqOpen /\ UNCHANGED <<q_kind, poolVars, rpVars, zVars, dpVars, devVars, irqVars, rvVars, buVars, wVars>>
    \/ TdCqClose /\ UNCHANGED <<q_kind, poolVars, rpVars, zVars, dpVars, devVars, irqVars, rvVars, buVars, wVars>>
    \/ TdCqArm /\ UNCHANGED <<q_kind, poolVars, rpVars, zVars, dpVars, devVars, irqVars, rvVars, buVars, wVars>>
    \/ TdTxqOpen /\ UNCHANGED <<q_kind, poolVars, rpVars, zVars, dpVars, devVars, irqVars, rvVars, buVars, wVars>>
    \/ TdTxqEnable /\ UNCHANGED <<q_kind, poolVars, rpVars, zVars, dpVars, devVars, irqVars, rvVars, buVars, wVars>>
    \/ TdTxqDisable /\ UNCHANGED <<q_kind, poolVars, rpVars, zVars, dpVars, devVars, irqVars, rvVars, buVars, wVars>>
    \/ TdTxqClose /\ UNCHANGED <<q_kind, poolVars, rpVars, zVars, dpVars, devVars, irqVars, rvVars, buVars, wVars>>
    \/ TdRxqOpen /\ UNCHANGED <<q_kind, poolVars, rpVars, zVars, dpVars, devVars, irqVars, rvVars, buVars, wVars>>
    \/ TdRxqEnable /\ UNCHANGED <<q_kind, poolVars, rpVars, zVars, dpVars, devVars, irqVars, rvVars, buVars, wVars>>
    \/ TdRxqDisable /\ UNCHANGED <<q_kind, poolVars, rpVars, zVars, dpVars, devVars, irqVars, rvVars, buVars, wVars>>
    \/ TdRxqClose /\ UNCHANGED <<q_kind, poolVars, rpVars, zVars, dpVars, devVars, irqVars, rvVars, buVars, wVars>>

SpecTeardown == InitTeardown /\ [][NextTeardown]_vars

\* ---- one network device: open, close, submitters, hardware, interrupts ----

InitDev ==
    /\ PoolIdle /\ RingFnIdle /\ RbIdle /\ FcIdle /\ SchedInit /\ TdIdle
    /\ ObjInit /\ DriverInit /\ q_kind = "tx" /\ DpInit /\ DevInit /\ IrqIdle /\ RvIdle
    /\ BuIdle /\ WIdle

NextDev ==
    \/ DevOpenEq /\ UNCHANGED <<q_kind, poolVars, rpVars, zVars, tdVars, irqVars, rvVars, buVars, wVars>>
    \/ DevOpen /\ UNCHANGED <<q_kind, poolVars, rpVars, zVars, tdVars, irqVars, rvVars, buVars, wVars>>
    \/ DevArmCq /\ UNCHANGED <<q_kind, poolVars, rpVars, zVars, tdVars, irqVars, rvVars, buVars, wVars>>
    \/ DevOpenTxq /\ UNCHANGED <<q_kind, poolVars, rpVars, zVars, tdVars, irqVars, rvVars, buVars, wVars>>
    \/ DevEnableTxq /\ UNCHANGED <<q_kind, poolVars, rpVars, zVars, tdVars, irqVars, rvVars, buVars, wVars>>
    \/ DevPortUp /\ UNCHANGED <<q_kind, poolVars, rpVars, zVars, tdVars, irqVars, rvVars, buVars, wVars>>
    \/ DevClose /\ UNCHANGED <<q_kind, poolVars, rpVars, zVars, tdVars, irqVars, rvVars, buVars, wVars>>
    \/ DevStartXmit /\ UNCHANGED <<q_kind, poolVars, rpVars, zVars, tdVars, irqVars, rvVars, buVars, wVars>>
    \/ DevXmitResume /\ UNCHANGED <<q_kind, poolVars, rpVars, zVars, tdVars, irqVars, rvVars, buVars, wVars>>
    \/ DevHwComplete /\ UNCHANGED <<q_kind, poolVars, rpVars, zVars, tdVars, irqVars, rvVars, buVars, wVars>>
    \/ DevHwEvent /\ UNCHANGED <<q_kind, poolVars, rpVars, zVars, tdVars, irqVars, rvVars, buVars, wVars>>
    \/ DevProcessEq /\ UNCHANGED <<q_kind, poolVars, rpVars, zVars, tdVars, irqVars, rvVars, buVars, wVars>>
    \/ DevHandlerResume /\ UNCHANGED <<q_kind, poolVars, rpVars, zVars, tdVars, irqVars, rvVars, buVars, wVars>>
    \/ DevProcessEqEnd /\ UNCHANGED <<q_kind, poolVars, rpVars, zVars, tdVars, irqVars, rvVars, buVars, wVars>>

SpecDev == InitDev /\ [][NextDev]_vars

\* ---- several submitters on the TX ring of a device that stays up ----

InitXmit == InitDev

NextXmit ==
    \/ DevOpenEq /\ UNCHANGED <<q_kind, poolVars, rpVars, zVars, tdVars, irqVars, rvVars, buVars, wVars>>
    \/ DevOpen /\ UNCHANGED <<q_kind, poolVars, rpVars, zVars, tdVars, irqVars, rvVars, buVars, wVars>>
    \/ DevArmCq /\ UNCHANGED <<q_kind, poolVars, rpVars, zVars, tdVars, irqVars, rvVars, buVars, wVars>>
    \/ DevOpenTxq /\ UNCHANGED <<q_kind, poolVars, rpVars, zVars, tdVars, irqVars, rvVars, buVars, wVars>>
    \/ DevEnableTxq /\ UNCHANGED <<q_kind, poolVars, rpVars, zVars, tdVars, irqVars, rvVars, buVars, wVars>>
    \/ DevPortUp /\ UNCHANGED <<q_kind, poolVars, rpVars, zVars, tdVars, irqVars, rvVars, buVars, wVars>>
    \/ XmStartXmit /\ UNCHANGED <<q_kind, poolVars, rpVars, zVars, tdVars, irqVars, rvVars, buVars, wVars>>
    \/ DevXmitResume /\ UNCHANGED <<q_kind, poolVars, rpVars, zVars, tdVars, irqVars, rvVars, buVars, wVars>>
    \/ DevHwComplete /\ UNCHANGED <<q_kind, poolVars, rpVars, zVars, tdVars, irqVars, rvVars, buVars, wVars>>
    \/ XmHwEvent /\ UNCHANGED <<q_kind, poolVars, rpVars, zVars, tdVars, irqVars, rvVars, buVars, wVars>>
    \/ DevProcessEq /\ UNCHANGED <<q_kind, poolVars, rpVars, zVars, tdVars, irqVars, rvVars, buVars, wVars>>
    \/ DevHandlerResume /\ UNCHANGED <<q_kind, poolVars, rpVars, zVars, tdVars, irqVars, rvVars, buVars, wVars>>
    \/ DevProcessEqEnd /\ UNCHANGED <<q_kind, poolVars, rpVars, zVars, tdVars, irqVars, rvVars, buVars, wVars>>

SpecXmit == InitXmit /\ [][NextXmit]_vars

\* ---- interrupt lines: notifications, workers, handlers ----

InitIrq ==
    /\ PoolIdle /\ QueuesIdle /\ RingFnIdle /\ RbIdle /\ FcIdle /\ SchedInit
    /\ DpInit /\ TdIdle /\ DevIdle /\ IrqInit /\ RvIdle /\ BuIdle /\ WIdle

IrqOthers ==
    UNCHANGED <<poolVars, driver, resVars, objVars, hwVars, callVars, q_kind,
                rpVars, zVars, dpVars, tdVars, devVars, rvVars, buVars, wVars>>

IrqRunStep(i) == Interrupt_run(i) /\ IrqOthers

IrqReturnStep(i) == Interrupt_handler_return(i) /\ IrqOthers

NextIrq ==
    \/ (\E i \in IrqLines : IrqMsi(i)) /\ IrqOthers
    \/ IrqEdge /\ IrqOthers
    \/ IrqRisingEdge /\ IrqOthers
    \/ IrqFallingEdge /\ IrqOthers
    \/ \E i \in IrqLines : IrqRunStep(i)
    \/ \E i \in IrqLines : IrqReturnStep(i)

\* the scheduler runs every task that is ready, and the handler returns
SpecIrq ==
    /\ InitIrq
    /\ [][NextIrq]_vars
    /\ \A i \in IrqLines : WF_vars(IrqRunStep(i)) /\ WF_vars(IrqReturnStep(i))

\* ---- receive: delivery to the NetDev's queue, recv() and recv_nowait() ----

InitRecv ==
    /\ PoolIdle /\ RingFnIdle /\ RbIdle /\ FcIdle /\ SchedInit
    /\ TdIdle /\ DevIdle /\ IrqIdle /\ BuIdle /\ WIdle
    /\ ObjInit /\ DriverInit /\ q_kind = "rx" /\ DpInit /\ RvIdle

RvOthers == UNCHANGED <<q_kind, poolVars, rpVars, zVars, tdVars, devVars, irqVars, buVars, wVars>>

NextRecv ==
    \/ DpOpenEq /\ RvStep /\ RvOthers
    \/ DpOpenCq /\ RvStep /\ RvOthers
    \/ DpArmCq /\ RvStep /\ RvOthers
    \/ DpOpenRxq /\ RvStep /\ RvOthers
    \/ DpEnableRxq /\ RvStep /\ RvOthers
    \/ DpPortUp /\ RvStep /\ RvOthers
    \/ RvHwRxComplete /\ RvOthers
    \/ RvHwEvent /\ RvOthers
    \/ RvProcessEq /\ RvOthers
    \/ DpHandlerResume /\ RvStep /\ RvOthers
    \/ DpProcessEqEnd /\ RvStep /\ RvOthers
    \/ RvRecv /\ RvOthers
    \/ RvRecvResume /\ RvOthers
    \/ RvRecvNowait /\ RvOthers

SpecRecv == InitRecv /\ [][NextRecv]_vars

\* ---- open() and close() on more queue objects than the pools have slots ----

InitExhaust ==
    /\ PoolIdle /\ RingFnIdle /\ RbIdle /\ FcIdle /\ SchedInit /\ DpInit
    /\ DevIdle /\ IrqIdle /\ RvIdle /\ TdIdle /\ BuIdle /\ WIdle
    /\ ExhaustInit /\ DriverInit /\ q_kind \in {"tx", "rx"}

XhOthers == UNCHANGED <<q_kind, poolVars, rpVars, zVars, dpVars, devVars, irqVars, rvVars, buVars, wVars>>

NextExhaust ==
    \/ XhEqOpen /\ XhOthers
    \/ XhEqClose /\ XhOthers
    \/ XhCqOpen /\ XhOthers
    \/ XhCqClose /\ XhOthers
    \/ XhTxqOpen /\ XhOthers
    \/ XhTxqClose /\ XhOthers
    \/ XhRxqOpen /\ XhOthers
    \/ XhRxqClose /\ XhOthers

SpecExhaust == InitExhaust /\ [][NextExhaust]_vars

\* ---- lookup in the register block list ----

InitFind == PoolIdle /\ QueuesIdle /\ RingFnIdle /\ FindInit /\ FcIdle /\ SchedInit /\ DpInit /\ YIdle

NextFind ==
    \/ FindCall /\ UNCHANGED <<poolVars, qVars, rpVars, fcVars, schVars, dpVars, yVars>>

SpecFind == InitFind /\ [][NextFind]_vars

\* ---- one ring beside every other call of the interface ----

InitFrame == InitTx

FrOthers == UNCHANGED <<q_kind, poolVars, rpVars, zVars, devVars, irqVars, rvVars, buVars, wVars>>

NextFrame ==
    \/ FrOpenEq /\ FrOthers
    \/ FrOpenCq /\ FrOthers
    \/ FrArmCq /\ FrOthers
    \/ FrOpenTxq /\ FrOthers
    \/ FrEnableTxq /\ FrOthers
    \/ FrPortUp /\ FrOthers
    \/ FrStartXmit /\ FrOthers
    \/ FrHwComplete /\ FrOthers
    \/ FrHwEvent /\ FrOthers
    \/ FrProcessEq /\ FrOthers
    \/ FrHandlerResume /\ FrOthers
    \/ FrProcessEqEnd /\ FrOthers
    \/ FrOtherCqOpen /\ FrOthers
    \/ FrOtherTxqOpen /\ FrOthers
    \/ FrFreeBuf /\ FrOthers
    \/ FrReadConsPtr /\ FrOthers
    \/ FrDevClose /\ UNCHANGED <<q_kind, poolVars, rpVars, zVars, irqVars, rvVars, buVars, wVars>>

SpecFrame == InitFrame /\ [][NextFrame]_vars

\* ---- NetDev.open statement by statement ----

InitOpen ==
    /\ PoolIdle /\ RingFnIdle /\ RbIdle /\ FcInit /\ SchedInit
    /\ TdIdle /\ DevInit /\ IrqIdle /\ RvIdle /\ BuIdle /\ WIdle
    /\ ObjInit /\ DriverInit /\ q_kind = "tx" /\ DpInit

OpOthers == UNCHANGED <<q_kind, poolVars, rpVars, rbVars, tdVars, irqVars, rvVars, wVars>>

NextOpen ==
    \/ OpEqOpen /\ OpOthers
    \/ NetDev_open_call /\ OpOthers
    \/ NetDev_open_queue /\ OpOthers
    \/ NetDev_open_reg /\ OpOthers
    \/ NetDev_open_fc /\ OpOthers
    \/ NetDev_open_sched /\ OpOthers
    \/ OpSchedBusWrite /\ OpOthers
    \/ OpSchedResume /\ OpOthers
    \/ NetDev_open_up /\ OpOthers
    \/ OpStartXmit /\ OpOthers

SpecOpen == InitOpen /\ [][NextOpen]_vars

\* ---- read_cons_ptr as a function ----

InitPtr ==
    /\ PoolIdle /\ QueuesIdle /\ RingFnIdle /\ RbIdle /\ FcIdle /\ SchedInit
    /\ DpInit /\ YIdle

PtrOthers == UNCHANGED <<poolVars, qVars, rpVars, zVars, dpVars, tdVars, devVars,
                         irqVars, rvVars, buVars, lv, uVars>>

NextPtr ==
    \/ PtrHwAdvance /\ PtrOthers
    \/ PtrRead /\ PtrOthers

SpecPtr == InitPtr /\ [][NextPtr]_vars

\* ---- start_xmit without a limit on the calls, with fairness ----

InitLive ==
    /\ PoolIdle /\ RingFnIdle /\ RbIdle /\ FcIdle /\ SchedInit /\ TdIdle
    /\ ObjInit /\ DriverInit /\ q_kind = "tx" /\ DpInit /\ DevInit /\ IrqIdle /\ RvIdle
    /\ BuIdle /\ RcIdle /\ LvInit /\ UIdle

LvOthers == UNCHANGED <<q_kind, poolVars, rpVars, zVars, tdVars, irqVars, rvVars,
                        buVars, rc, uVars>>

NextLive ==
    \/ DevOpenEq /\ LvOthers /\ UNCHANGED lv
    \/ DevOpen /\ LvOthers /\ UNCHANGED lv
    \/ DevArmCq /\ LvOthers /\ UNCHANGED lv
    \/ DevOpenTxq /\ LvOthers /\ UNCHANGED lv
    \/ DevEnableTxq /\ LvOthers /\ UNCHANGED lv
    \/ DevPortUp /\ LvOthers /\ UNCHANGED lv
    \/ (\E s \in Submitters : LvStartXmit(s)) /\ LvOthers
    \/ (\E s \in Submitters : LvResume(s)) /\ LvOthers
    \/ LvHwComplete /\ LvOthers
    \/ LvHandlerRun /\ LvOthers
    \/ LvHandlerResume /\ LvOthers

\* the hardware completes what is posted, the handler is called for what is
\* completed and resumed when its register write is done, and every call
\* that was made ready runs
SpecLive ==
    /\ InitLive /\ [][NextLive]_vars
    /\ WF_vars(LvHwComplete /\ LvOthers)
    /\ WF_vars(LvHandlerRun /\ LvOthers)
    /\ WF_vars(LvHandlerResume /\ LvOthers)
    /\ \A s \in Submitters : WF_vars(LvResume(s) /\ LvOthers)

\* ---- free_buf on the ring as the data path leaves it ----

NextDrain ==
    \/ FrOpenEq /\ FrOthers
    \/ FrOpenCq /\ FrOthers
    \/ FrArmCq /\ FrOthers
    \/ FrOpenTxq /\ FrOthers
    \/ FrEnableTxq /\ FrOthers
    \/ FrPortUp /\ FrOthers
    \/ FrStartXmit /\ FrOthers
    \/ FrHwComplete /\ FrOthers
    \/ FrHwEvent /\ FrOthers
    \/ FrProcessEq /\ FrOthers
    \/ FrHandlerResume /\ FrOthers
    \/ FrProcessEqEnd /\ FrOthers
    \/ FrFreeBuf /\ FrOthers

SpecDrain == InitFrame /\ [][NextDrain]_vars

\* ---- close() called again during a close() ----

InitOverlap ==
    /\ PoolIdle /\ RingFnIdle /\ RbIdle /\ FcIdle /\ SchedInit /\ DpInit
    /\ ObjInit /\ DriverInit /\ q_kind = "tx"
    /\ TdIdle /\ DevIdle /\ IrqIdle /\ RvIdle /\ BuIdle /\ RcIdle /\ LvIdle
    /\ OcInit /\ OoIdle

OcOthers == UNCHANGED <<poolVars, rpVars, zVars, dpVars, tdVars, devVars,
                        irqVars, rvVars, buVars, rc, lv, oo>>

NextOverlap ==
    \/ OcOpenEq /\ OcOthers
    \/ OcOpenCq /\ OcOthers
    \/ OcOpenRing /\ OcOthers
    \/ OcCloseCall /\ OcOthers
    \/ OcCloseResume /\ OcOthers

SpecOverlap == InitOverlap /\ [][NextOverlap]_vars

\* ---- open() called again during an open() ----

InitOpen2 ==
    /\ PoolIdle /\ QueuesIdle /\ RingFnIdle /\ RbIdle /\ FcIdle /\ SchedInit
    /\ DpInit /\ TdIdle /\ DevIdle /\ IrqIdle /\ RvIdle /\ BuIdle /\ RcIdle
    /\ LvIdle /\ OcIdle /\ OoInit

OoOthers == UNCHANGED <<poolVars, qVars, rpVars, zVars, dpVars, tdVars, devVars,
                        irqVars, rvVars, buVars, rc, lv, oc>>

NextOpen2 ==
    \/ OoOpenCall /\ OoOthers
    \/ OoCqOpen /\ OoOthers
    \/ OoRingOpen /\ OoOthers
    \/ OoReg /\ OoOthers
    \/ OoUp /\ OoOthers

SpecOpen2 == InitOpen2 /\ [][NextOpen2]_vars

\* ---- the TX data path with close() of the ring and of its CQ ----

NextUnbind ==
    \/ FrOpenEq /\ FrOthers
    \/ FrOpenCq /\ FrOthers
    \/ FrArmCq /\ FrOthers
    \/ FrOpenTxq /\ FrOthers
    \/ FrEnableTxq /\ FrOthers
    \/ FrPortUp /\ FrOthers
    \/ UbStartXmit /\ FrOthers
    \/ FrHwComplete /\ FrOthers
    \/ UbHwEvent /\ FrOthers
    \/ FrProcessEq /\ FrOthers
    \/ FrHandlerResume /\ FrOthers
    \/ FrProcessEqEnd /\ FrOthers
    \/ UbTxqClose /\ FrOthers
    \/ UbCqClose /\ FrOthers

SpecUnbind == InitFrame /\ [][NextUnbind]_vars

\* ---- receive data path, completions out of order ----

NextRefill ==
    \/ DpOpenEq /\ UNCHANGED <<q_kind, poolVars, rpVars, xVars>>
    \/ DpOpenCq /\ UNCHANGED <<q_kind, poolVars, rpVars, xVars>>
    \/ DpArmCq /\ UNCHANGED <<q_kind, poolVars, rpVars, xVars>>
    \/ DpOpenRxq /\ UNCHANGED <<q_kind, poolVars, rpVars, xVars>>
    \/ DpEnableRxq /\ UNCHANGED <<q_kind, poolVars, rpVars, xVars>>
    \/ DpPortUp /\ UNCHANGED <<q_kind, poolVars, rpVars, xVars>>
    \/ RfHwRxComplete /\ UNCHANGED <<q_kind, poolVars, rpVars, xVars>>
    \/ DpHwEvent /\ UNCHANGED <<q_kind, poolVars, rpVars, xVars>>
    \/ DpProcessEq /\ UNCHANGED <<q_kind, poolVars, rpVars, xVars>>
    \/ DpHandlerResume /\ UNCHANGED <<q_kind, poolVars, rpVars, xVars>>
    \/ DpProcessEqEnd /\ UNCHANGED <<q_kind, poolVars, rpVars, xVars>>

SpecRefill == InitRx /\ [][NextRefill]_vars

\* ---- scheduler enable()/disable(), also disable() without an enable() ----

NextUnmatched ==
    \/ SchedEnableCall /\ UNCHANGED <<poolVars, qVars, rpVars, rbVars, fcVars, dpVars, yVars>>
    \/ SchedEnableResume /\ UNCHANGED <<poolVars, qVars, rpVars, rbVars, fcVars, dpVars, yVars>>
    \/ SchedDisableCall /\ UNCHANGED <<poolVars, qVars, rpVars, rbVars, fcVars, dpVars, yVars>>
    \/ SchedDisableUnmatched /\ UNCHANGED <<poolVars, qVars, rpVars, rbVars, fcVars, dpVars, yVars>>
    \/ SchedDisableResume /\ UNCHANGED <<poolVars, qVars, rpVars, rbVars, fcVars, dpVars, yVars>>
    \/ SchedBusWrite /\ UNCHANGED <<poolVars, qVars, rpVars, rbVars, fcVars, dpVars, yVars>>

SpecUnmatched == InitSched /\ [][NextUnmatched]_vars

====
